---- MODULE Spec2Model ----
(***************************************************************************)
(* Session store of the Jupyter chatbot extension (src/src/extension.ts):  *)
(* ChatbotViewProvider with its session list, the current-session id, the  *)
(* 'chatSessions' entry of globalState, the attached webview, the submit   *)
(* handlers suspended on the provider call, and LLMService with its        *)
(* settings, its stored credential and its requests.                       *)
(***************************************************************************)
EXTENDS Integers, Sequences, FiniteSets, TLC

VARIABLES
    _sessions,          \* ChatSession[]: sequence of [id, title, messages]
    _currentSessionId,  \* string | null
    _view,              \* TRUE when resolveWebviewView has set this._view
    stored,             \* globalState value under 'chatSessions' (serialized)
    inflight,           \* submit handlers suspended at `await getResponse`
    detached,           \* session objects held only by suspended handlers
    webview,            \* state last posted to the webview
    timer,              \* TRUE while the setTimeout of resolveWebviewView is armed
    nextId,             \* number of uuids handed out so far, plus one
    last,               \* the handler step just completed
    config,             \* the 'jupyter-chatbot' settings: provider, model, URL
    secret,             \* context.secrets value under 'universityApiKey'
    _availableModels,   \* string[]: the catalog last fetched
    refreshes,          \* the suspended _refreshModels calls and config handlers
    notebook,           \* vscode.window.activeNotebookEditor and its cells
    uncaught            \* TRUE once a message handler ended with an exception

\* the settings, the secret store and the model catalog
llm == <<config, secret, _availableModels, refreshes>>

\* the editor, and the fate of the handlers
env == <<notebook, uncaught>>

vars == <<_sessions, _currentSessionId, _view, stored, inflight, detached,
          webview, timer, nextId, last, config, secret, _availableModels,
          refreshes, notebook, uncaught>>

----------------------------------------------------------------------------
(* Bounds *)

MaxIds == 2
MaxInflight == 2
MaxMessages == 3
MaxMessagesLLM == 4
MaxHandlers == 1

\* handlers suspended at the same time when updateConfig commands overlap
MaxOverlap == 2
MaxMessagesConfig == 2

----------------------------------------------------------------------------
(* Strings are sequences of one-character strings. *)

null == "null"

Digits == <<"0", "1", "2", "3", "4", "5", "6", "7", "8", "9">>

MkText(n) == [i \in 1..n |-> Digits[(i % 10) + 1]]

TextLens == {2, 30, 31, 45}

UserTexts == {MkText(n) : n \in TextLens}

\* the text typed in the interleaving runs
TypedTexts == {MkText(45)}

Replies == {<<"h", "i">>}

Errors == {<<"t", "i", "m", "e", "o", "u", "t">>}

NewChatTitle == <<"N", "e", "w", " ", "C", "h", "a", "t">>

TitleMax == 30

TitleSuffix == <<".", ".", ".">>

\* variant: the error is shown without a prefix
ErrorPrefixMissing == <<>>

\* `Error: ${...}` of line 316
ErrorPrefix == <<"E", "r", "r", "o", "r", ":", " ">>

Min(a, b) == IF a < b THEN a ELSE b

Max(a, b) == IF a > b THEN a ELSE b

\* String.prototype.substring(start, end): both indices clamped to
\* [0, length] and swapped when start > end.
substring(s, start, end) ==
    LET a == Min(Max(start, 0), Len(s))
        b == Min(Max(end, 0), Len(s))
    IN  SubSeq(s, Min(a, b) + 1, Max(a, b))

\* variant: the suffix is added from 30 characters on
TitleOfFromLimit(text) ==
    substring(text, 0, TitleMax) \o (IF Len(text) >= TitleMax THEN TitleSuffix ELSE <<>>)

\* message.text.substring(0, 30) + (message.text.length > 30 ? "..." : "")
TitleOf(text) ==
    substring(text, 0, TitleMax) \o (IF Len(text) > TitleMax THEN TitleSuffix ELSE <<>>)

\* uuidv4(): the n-th identifier handed out
UuidNames == <<"u1", "u2", "u3", "u4", "u5", "u6">>

\* variant: the generator hands out the same identifier again
uuidv4Again(n) == UuidNames[1]

\* uuidv4(): the n-th call gives the n-th identifier, never one given before
uuidv4(n) == UuidNames[n]

NoSuchId == "u0"

----------------------------------------------------------------------------
(* globalState: the list is stored as structured text (JSON). *)

Tok(k, v) == [k |-> k, v |-> v]

RECURSIVE StringifyMessages(_)
StringifyMessages(ms) ==
    IF ms = <<>> THEN <<>>
    ELSE <<Tok("punct", <<"{">>),
           Tok("key", <<"text">>), Tok("string", Head(ms).text),
           Tok("key", <<"isUser">>),
           Tok("bool", IF Head(ms).isUser THEN <<"true">> ELSE <<"false">>),
           Tok("punct", <<"}">>)>> \o StringifyMessages(Tail(ms))

RECURSIVE StringifySessions(_)
StringifySessions(ss) ==
    IF ss = <<>> THEN <<>>
    ELSE <<Tok("punct", <<"{">>),
           Tok("key", <<"id">>), Tok("string", <<Head(ss).id>>),
           Tok("key", <<"title">>), Tok("string", Head(ss).title),
           Tok("key", <<"messages">>), Tok("punct", <<"[">>)>>
         \o StringifyMessages(Head(ss).messages)
         \o <<Tok("punct", <<"]">>), Tok("punct", <<"}">>)>>
         \o StringifySessions(Tail(ss))

Stringify(ss) ==
    <<Tok("punct", <<"[">>)>> \o StringifySessions(ss) \o <<Tok("punct", <<"]">>)>>

\* variant: the messages are read back in reverse order
RECURSIVE ParseMessagesReversed(_, _)
ParseMessagesReversed(t, i) ==
    IF t[i] = Tok("punct", <<"]">>) THEN [v |-> <<>>, n |-> i + 1]
    ELSE LET m == [text |-> t[i + 2].v, isUser |-> (t[i + 4].v = <<"true">>)]
             rest == ParseMessagesReversed(t, i + 6)
         IN  [v |-> rest.v \o <<m>>, n |-> rest.n]

\* Parsers return [v |-> value, n |-> index of the next unread token].
RECURSIVE ParseMessages(_, _)
ParseMessages(t, i) ==
    IF t[i] = Tok("punct", <<"]">>) THEN [v |-> <<>>, n |-> i + 1]
    ELSE LET m == [text |-> t[i + 2].v, isUser |-> (t[i + 4].v = <<"true">>)]
             rest == ParseMessages(t, i + 6)
         IN  [v |-> <<m>> \o rest.v, n |-> rest.n]

RECURSIVE ParseSessions(_, _)
ParseSessions(t, i) ==
    IF t[i] = Tok("punct", <<"]">>) THEN [v |-> <<>>, n |-> i + 1]
    ELSE LET ms == ParseMessages(t, i + 7)
             s == [id |-> t[i + 2].v[1], title |-> t[i + 4].v, messages |-> ms.v]
             rest == ParseSessions(t, ms.n + 1)
         IN  [v |-> <<s>> \o rest.v, n |-> rest.n]

Parse(t) == ParseSessions(t, 2).v

----------------------------------------------------------------------------
(* Helpers over the session list *)

Ids(ss) == {ss[i].id : i \in DOMAIN ss}

\* variant: no match gives the last index (as splice(-1, 1) would take it)
findIndexOrLast(ss, id) ==
    IF \E i \in DOMAIN ss : ss[i].id = id
    THEN CHOOSE i \in DOMAIN ss : ss[i].id = id /\ \A j \in 1..(i - 1) : ss[j].id # id
    ELSE Len(ss)

\* Array.prototype.findIndex: first matching index (1-based), 0 when none
findIndex(ss, id) ==
    IF \E i \in DOMAIN ss : ss[i].id = id
    THEN CHOOSE i \in DOMAIN ss : ss[i].id = id /\ \A j \in 1..(i - 1) : ss[j].id # id
    ELSE 0

\* variant: without a current session the first session of the list is taken
CurrentIndexOrFirst(ss, cur) ==
    IF findIndex(ss, cur) = 0 /\ Len(ss) > 0 THEN 1 ELSE findIndex(ss, cur)

\* get _currentSession(): the index of the session found, 0 for undefined
CurrentIndex(ss, cur) == findIndex(ss, cur)

\* variant: splice(index) without a delete count removes the whole tail
spliceToEnd(ss, i) == SubSeq(ss, 1, i - 1)

\* Array.prototype.splice(index, 1)
splice(ss, i) == SubSeq(ss, 1, i - 1) \o SubSeq(ss, i + 1, Len(ss))

\* variant: push(x) instead of unshift(x)
unshiftAsPush(ss, x) == Append(ss, x)

\* Array.prototype.unshift(x)
unshift(ss, x) == <<x>> \o ss

Message(text, isUser) == [text |-> text, isUser |-> isUser]

NewSession(id) == [id |-> id, title |-> NewChatTitle, messages |-> <<>>]

\* variant: the current id is left alone
CurrentAfterDeleteStale(ss, cur, sessionId) == cur

\* deleteChat, lines 235-237: the current id after sessionId was spliced
\* out and ss remains
CurrentAfterDelete(ss, cur, sessionId) ==
    IF cur = sessionId
    THEN (IF Len(ss) > 0 THEN ss[1].id ELSE null)
    ELSE cur

\* variant: the title is not reset
ClearSessionKeepsTitle(s) == [s EXCEPT !.messages = <<>>]

\* clearCurrentChat, lines 246-247
ClearSession(s) == [s EXCEPT !.messages = <<>>, !.title = NewChatTitle]

\* case 'submit', lines 299-304: push the user message, derive the title
\* when it is the only message
PushUserMessage(s, text) ==
    [s EXCEPT !.messages = Append(@, Message(text, TRUE)),
              !.title = IF Len(s.messages) + 1 = 1 THEN TitleOf(text) ELSE @]

\* variant: the settled handler pushes to whatever session is current
ResponseTargetCurrent(session, cur) == cur

\* case 'submit', lines 312 and 317: the object the settled handler pushes
\* to is the `session` constant bound at line 296
ResponseTarget(session, cur) == session

\* variant: only the session headers are persisted
SaveWithoutMessages(ss) == Stringify([i \in DOMAIN ss |-> [ss[i] EXCEPT !.messages = <<>>]])

\* _saveSessions(), lines 207-209
_saveSessions(ss) == Stringify(ss)

\* _updateWebview(): nothing without a view; updateHistory only when a
\* current session exists.
UpdateWebview(view, ss, cur, wv) ==
    IF ~view THEN wv
    ELSE [sessions |-> ss,
          currentSessionId |-> cur,
          history |-> IF CurrentIndex(ss, cur) # 0
                      THEN ss[CurrentIndex(ss, cur)].messages
                      ELSE wv.history,
          models |-> _availableModels,
          context |-> wv.context,
          config |-> wv.config]

NoWebview ==
    [sessions |-> <<>>, currentSessionId |-> null, history |-> <<>>, models |-> <<>>,
     context |-> <<>>,
     config |-> [provider |-> null, model |-> <<>>, universityUrl |-> null]]

\* what the handler step just completed did: whether it called
\* _saveSessions, and the identifier of the session it returned (null: none)
Last(saved, ret) == [saved |-> saved, ret |-> ret]

----------------------------------------------------------------------------
(* Session objects.  A suspended submit handler holds the session object   *)
(* it found at submit time; the object is looked up in the list first and  *)
(* among the detached objects (deleted from the list, still held by a      *)
(* handler) otherwise.                                                     *)

InList(ss, id) == id \in Ids(ss)

HeldIds(fl) == {fl[i].session : i \in DOMAIN fl}

\* variant: unshift(msg) instead of push(msg)
PushInListAtFront(ss, id, msg) ==
    [i \in DOMAIN ss |->
        IF ss[i].id = id
        THEN [ss[i] EXCEPT !.messages = <<msg>> \o @]
        ELSE ss[i]]

\* session.messages.push(msg) on the object with identifier id
PushInList(ss, id, msg) ==
    [i \in DOMAIN ss |->
        IF ss[i].id = id
        THEN [ss[i] EXCEPT !.messages = Append(@, msg)]
        ELSE ss[i]]

PushDetached(dt, id, msg) ==
    [d \in DOMAIN dt |->
        IF d = id THEN [dt[d] EXCEPT !.messages = Append(@, msg)] ELSE dt[d]]

\* objects no handler holds any more are unreachable
Collect(dt, fl) == [d \in (DOMAIN dt) \cap HeldIds(fl) |-> dt[d]]

RemoveAt(q, i) == SubSeq(q, 1, i - 1) \o SubSeq(q, i + 1, Len(q))

RECURSIVE MessageCount(_)
MessageCount(ss) ==
    IF ss = <<>> THEN 0 ELSE Len(Head(ss).messages) + MessageCount(Tail(ss))

RECURSIVE Objects(_)
Objects(dt) ==
    IF DOMAIN dt = {} THEN <<>>
    ELSE LET d == CHOOSE d \in DOMAIN dt : TRUE
         IN  <<dt[d]>> \o Objects([e \in (DOMAIN dt) \ {d} |-> dt[e]])

NoDetached == [d \in {} |-> NewSession(d)]

AllocatedIds == {uuidv4(n) : n \in 1..(nextId - 1)}

----------------------------------------------------------------------------
(* The notebook context, lines 402-440. *)

NoNotebookText ==
    <<"N", "o", " ", "a", "c", "t", "i", "v", "e", " ", "J", "u", "p", "y",
      "t", "e", "r", " ", "n", "o", "t", "e", "b", "o", "o", "k", " ", "f",
      "o", "u", "n", "d", ".", " ", "O", "p", "e", "n", " ", "a", " ", "n",
      "o", "t", "e", "b", "o", "o", "k", " ", "f", "i", "r", "s", "t", ".">>

EmptyNotebookText ==
    <<"N", "o", "t", "e", "b", "o", "o", "k", " ", "i", "s", " ", "e", "m",
      "p", "t", "y", ".">>

ParseErrorPrefix ==
    <<"E", "r", "r", "o", "r", " ", "p", "a", "r", "s", "i", "n", "g", " ",
      "n", "o", "t", "e", "b", "o", "o", "k", ":", " ">>

CheckConsoleText ==
    <<"C", "h", "e", "c", "k", " ", "c", "o", "n", "s", "o", "l", "e", " ",
      "f", "o", "r", " ", "d", "e", "t", "a", "i", "l", "s">>

CodeCellLabel == <<".", " ", "C", "O", "D", "E", " ", "C", "E", "L", "L", "]", "\n">>

MarkdownCellLabel ==
    <<".", " ", "M", "A", "R", "K", "D", "O", "W", "N", " ", "C", "E", "L", "L",
      "]", "\n">>

\* no editor; an editor with no cell; with a code cell, a cell without
\* document and a markup cell; an editor whose cells cannot be read (an
\* Error with a message is thrown, or a value that is no Error)
NoEditor == [editor |-> FALSE, fails |-> "no", cells |-> <<>>]

EmptyNotebook == [editor |-> TRUE, fails |-> "no", cells |-> <<>>]

ThreeCells ==
    [editor |-> TRUE, fails |-> "no",
     cells |-> <<[kind |-> "code", document |-> TRUE, content |-> <<"x", "=", "1">>],
                 [kind |-> "code", document |-> FALSE, content |-> <<>>],
                 [kind |-> "markup", document |-> TRUE, content |-> <<"#", "t">>]>>]

BrokenNotebook == [editor |-> TRUE, fails |-> "error", cells |-> <<>>]

OddNotebook == [editor |-> TRUE, fails |-> "value", cells |-> <<>>]

Notebooks == {NoEditor, EmptyNotebook, ThreeCells, BrokenNotebook, OddNotebook}

\* the message of the Error thrown by a cell read
CellReadMessage == <<"d", "i", "s", "p", "o", "s", "e", "d">>

\* lines 423-433: the text of the cell at position index (from 0)
CellText(cell, index) ==
    IF ~cell.document THEN <<>>
    ELSE IF cell.kind = "code"
         THEN <<"[", Digits[index + 2]>> \o CodeCellLabel \o cell.content
         ELSE IF cell.kind = "markup"
              THEN <<"[", Digits[index + 2]>> \o MarkdownCellLabel \o cell.content
              ELSE <<>>

\* .filter(Boolean).join('\n\n') over the cells from position i on
RECURSIVE JoinCells(_, _, _)
JoinCells(cells, i, first) ==
    IF i > Len(cells) THEN <<>>
    ELSE IF CellText(cells[i], i - 1) = <<>>
         THEN JoinCells(cells, i + 1, first)
         ELSE (IF first THEN <<>> ELSE <<"\n", "\n">>)
                \o CellText(cells[i], i - 1) \o JoinCells(cells, i + 1, FALSE)

\* variant: an empty notebook gives the empty join
_getNotebookContextJoinsEmpty(nb) ==
    IF nb.fails = "error" THEN ParseErrorPrefix \o CellReadMessage
    ELSE IF nb.fails = "value" THEN ParseErrorPrefix \o CheckConsoleText
    ELSE IF ~nb.editor THEN NoNotebookText
    ELSE JoinCells(nb.cells, 1, TRUE)

\* _getNotebookContext(), lines 410-440
_getNotebookContext(nb) ==
    IF nb.fails = "error" THEN ParseErrorPrefix \o CellReadMessage
    ELSE IF nb.fails = "value" THEN ParseErrorPrefix \o CheckConsoleText
    ELSE IF ~nb.editor THEN NoNotebookText
    ELSE IF Len(nb.cells) = 0 THEN EmptyNotebookText
    ELSE JoinCells(nb.cells, 1, TRUE)

PromptHeader ==
    <<"N", "o", "t", "e", "b", "o", "o", "k", " ", "C", "o", "n", "t", "e",
      "x", "t", ":", "\n">>

QuestionLabel ==
    <<"\n", "\n", "Q", "u", "e", "s", "t", "i", "o", "n", ":", " ">>

AnswerCue ==
    <<"\n", "A", "n", "s", "w", "e", "r", ":">>

\* variant: a blank line before the cue
fullPromptBlankLineBeforeCue(prompt, context) ==
    PromptHeader \o context \o QuestionLabel \o prompt \o <<"\n">> \o AnswerCue

\* fullPrompt of line 66
fullPrompt(prompt, context) ==
    PromptHeader \o context \o QuestionLabel \o prompt \o AnswerCue

----------------------------------------------------------------------------
(* LLMService.  One call of getResponse or of getAvailableModels is a      *)
(* record whose pc names the await it is suspended at; the HTTP requests   *)
(* it has issued are counted in the record.                                *)

Ollama == "ollama"

University == "university-server"

Providers == {Ollama, University}

\* a value of the llmProvider setting that getResponse has no case for
Unsupported == "openai"

DefaultModel ==
    <<"d", "e", "e", "p", "s", "e", "e", "k", "-", "r", "1", ":", "7", "0",
      "b">>

OtherModel == <<"l", "l", "a", "m", "a", "3">>

Models == {DefaultModel, OtherModel}

DefaultUrl == "http://chat.ese.ic.ac.uk:8080"

OtherUrl == "http://localhost:3000"

\* getConfig(), lines 24-31: the defaults of the three settings
DefaultConfig ==
    [provider |-> Ollama, model |-> DefaultModel, universityApiUrl |-> DefaultUrl]

Configs ==
    [provider : Providers \cup {Unsupported}, model : Models,
     universityApiUrl : {DefaultUrl}]

\* secrets.get('universityApiKey') gives undefined when nothing is stored
NoKey == "undefined"

ApiKey == "sk-1"

Secrets == {NoKey, ApiKey}

NoResponseText ==
    <<"N", "o", " ", "r", "e", "s", "p", "o", "n", "s", "e", " ", "f", "r",
      "o", "m", " ", "m", "o", "d", "e", "l">>

UnexpectedFormatText ==
    <<"E", "r", "r", "o", "r", ":", " ", "U", "n", "e", "x", "p", "e", "c",
      "t", "e", "d", " ", "r", "e", "s", "p", "o", "n", "s", "e", " ", "f",
      "o", "r", "m", "a", "t", " ", "f", "r", "o", "m", " ", "u", "n", "i",
      "v", "e", "r", "s", "i", "t", "y", " ", "s", "e", "r", "v", "e", "r">>

MissingKeyText ==
    <<"U", "n", "i", "v", "e", "r", "s", "i", "t", "y", " ", "A", "P", "I",
      " ", "k", "e", "y", " ", "n", "o", "t", " ", "c", "o", "n", "f", "i",
      "g", "u", "r", "e", "d", ".", " ", "U", "s", "e", " ", "\"", "S",
      "e", "t", " ", "U", "n", "i", "v", "e", "r", "s", "i", "t", "y", " ",
      "A", "P", "I", " ", "K", "e", "y", "\"", " ", "c", "o", "m", "m",
      "a", "n", "d">>

UniversityErrorPrefix ==
    <<"U", "n", "i", "v", "e", "r", "s", "i", "t", "y", " ", "A", "P", "I",
      " ", "e", "r", "r", "o", "r", ":", " ">>

OllamaErrorPrefix ==
    <<"O", "l", "l", "a", "m", "a", " ", "A", "P", "I", " ", "e", "r", "r",
      "o", "r", ":", " ">>

StatusPrefix == <<"S", "t", "a", "t", "u", "s", ":", " ">>

DetailSeparator == <<" ", "|", " ">>

\* `Model ${config.model} not available on server`, line 73
ModelNotAvailable(model) ==
    <<"M", "o", "d", "e", "l", " ">> \o model \o
      <<" ", "n", "o", "t", " ", "a", "v", "a", "i", "l", "a", "b", "l",
        "e", " ", "o", "n", " ", "s", "e", "r", "v", "e", "r">>

\* variant: every model passes the test
includesAlways(seq, x) == TRUE

\* Array.prototype.includes
includes(seq, x) == \E i \in DOMAIN seq : seq[i] = x

\* Array.prototype.map(m => m.id) and map(m => m.name)
MapId(items) == [i \in DOMAIN items |-> items[i].id]

MapName(items) == [i \in DOMAIN items |-> items[i].name]

(* What the network can answer.  kind "fail": no answer, a timeout or an   *)
(* error status (axios rejects); kind "ok": a 2xx answer with a body.      *)

Unknown == <<"U", "n", "k", "n", "o", "w", "n">>

\* GET {universityApiUrl}/api/models: body.data is a list of {id}, is
\* missing, or is not an array
UniversityListOutcomes ==
    { [kind |-> "fail"],
      [kind |-> "ok", shape |-> "list", items |-> <<>>],
      [kind |-> "ok", shape |-> "list", items |-> <<[id |-> DefaultModel]>>],
      [kind |-> "ok", shape |-> "nolist"],
      [kind |-> "ok", shape |-> "notarray"] }

\* GET http://localhost:11435/api/tags: body.models is a list of {name} or
\* is missing
OllamaListOutcomes ==
    { [kind |-> "fail"],
      [kind |-> "ok", shape |-> "list", items |-> <<>>],
      [kind |-> "ok", shape |-> "list", items |-> <<[name |-> DefaultModel]>>],
      [kind |-> "ok", shape |-> "nolist"] }

ListOutcomes(provider) ==
    IF provider = University THEN UniversityListOutcomes ELSE OllamaListOutcomes

\* POST /api/generate: the body has a `response` string (possibly empty) or
\* has none; a failure carries the message of the axios error
GenerateOutcomes ==
    { [kind |-> "fail", message |-> <<"t", "i", "m", "e", "o", "u", "t">>],
      [kind |-> "ok", body |-> [response |-> <<"h", "i">>]],
      [kind |-> "ok", body |-> [response |-> <<>>]],
      [kind |-> "ok", body |-> [done |-> TRUE]] }

\* POST /api/chat/completions: shape "content": choices[0].message.content;
\* "nochoices": no choices field; "emptychoices": choices is empty;
\* "nomessage": choices[0] has no message.  A failure has the status of the
\* answer (none: no answer arrived) and perhaps an error detail.
ChatOutcomes ==
    { [kind |-> "fail", status |-> <<>>, detail |-> <<>>],
      [kind |-> "fail", status |-> <<"4", "0", "1">>, detail |-> <<"n", "o">>],
      [kind |-> "ok", shape |-> "content", content |-> <<"h", "i">>],
      [kind |-> "ok", shape |-> "nochoices"],
      [kind |-> "ok", shape |-> "emptychoices"],
      [kind |-> "ok", shape |-> "nomessage"] }

\* variant: the credential test always passes
hasKeyAlways(apiKey) == TRUE

\* the tests `apiKey` of line 70 and `!apiKey` of line 109
hasKey(apiKey) == apiKey # NoKey

\* variant: a failed list request yields a default catalog
getAvailableModelsDefaultOnFailure(provider, outcome) ==
    IF outcome.kind = "ok" /\ outcome.shape = "list"
    THEN (IF provider = University THEN MapId(outcome.items) ELSE MapName(outcome.items))
    ELSE <<DefaultModel>>

\* getAvailableModels(), lines 39-61: what the call returns once its list
\* request has settled; every failure ends in a catch that returns []
getAvailableModels(provider, outcome) ==
    IF provider = University
    THEN IF outcome.kind = "ok" /\ outcome.shape = "list"
         THEN MapId(outcome.items)
         ELSE <<>>
    ELSE IF outcome.kind = "ok" /\ outcome.shape = "list"
         THEN MapName(outcome.items)
         ELSE <<>>

\* variant: the list request is issued before the credential is looked at
ListRequestsAlways(provider, apiKey) == 1

\* getAvailableModels(), lines 35-38: the number of list requests issued
\* once the credential is known (none for the university server without one)
ListRequests(provider, apiKey) ==
    IF provider = University /\ apiKey = NoKey THEN 0 ELSE 1

\* variant: an empty `response` is returned as it is
queryOllamaKeepsEmpty(outcome) ==
    IF outcome.kind = "fail"
    THEN [ok |-> FALSE, text |-> OllamaErrorPrefix \o outcome.message]
    ELSE IF "response" \in DOMAIN outcome.body
         THEN [ok |-> TRUE, text |-> outcome.body.response]
         ELSE [ok |-> TRUE, text |-> NoResponseText]

\* queryOllama(), lines 88-104: response.data.response || "No response from
\* model" (an empty string is falsy); a failure is rethrown as an Error
queryOllama(outcome) ==
    IF outcome.kind = "fail"
    THEN [ok |-> FALSE, text |-> OllamaErrorPrefix \o outcome.message]
    ELSE IF "response" \in DOMAIN outcome.body /\ outcome.body.response # <<>>
         THEN [ok |-> TRUE, text |-> outcome.body.response]
         ELSE [ok |-> TRUE, text |-> NoResponseText]

\* the detail of an axios error, lines 138-142
StatusDetail(outcome) ==
    StatusPrefix \o (IF outcome.status = <<>> THEN Unknown ELSE outcome.status)
      \o (IF outcome.detail = <<>> THEN <<>> ELSE DetailSeparator \o outcome.detail)

\* variant: a malformed answer is thrown as an Error
queryUniversityServerThrowsOnShape(outcome) ==
    IF outcome.kind = "fail"
    THEN [ok |-> FALSE, text |-> UniversityErrorPrefix \o StatusDetail(outcome)]
    ELSE IF outcome.shape = "content"
         THEN [ok |-> TRUE, text |-> outcome.content]
         ELSE [ok |-> FALSE, text |-> UnexpectedFormatText]

\* queryUniversityServer(), lines 130-145: once the chat request has settled
queryUniversityServer(outcome) ==
    IF outcome.kind = "fail"
    THEN [ok |-> FALSE, text |-> UniversityErrorPrefix \o StatusDetail(outcome)]
    ELSE IF outcome.shape = "content"
         THEN [ok |-> TRUE, text |-> outcome.content]
         ELSE [ok |-> TRUE, text |-> UnexpectedFormatText]

\* variant: the call is never started
StartCallNever(session, text, cfg, nb) ==
    [session |-> session, text |-> text, cfg |-> cfg, notebook |-> nb,
     pc |-> "idle", catalog |-> null, list |-> 0, chat |-> 0]

\* getResponse(), lines 64-86, up to its first suspension: the notebook was
\* read at line 310 and the settings at line 65; the university server waits for the credential (line 69), the
\* local provider has posted its generate request (line 90)
StartCall(session, text, cfg, nb) ==
    [session |-> session, text |-> text, cfg |-> cfg, notebook |-> nb,
     pc |-> IF cfg.provider = University THEN "getKey" ELSE "generate",
     catalog |-> null,
     list |-> 0,
     chat |-> IF cfg.provider = University THEN 0 ELSE 1]

\* the characters of a provider name
ProviderName(provider) ==
    IF provider = Ollama THEN <<"o", "l", "l", "a", "m", "a">>
    ELSE IF provider = University
         THEN <<"u", "n", "i", "v", "e", "r", "s", "i", "t", "y", "-", "s", "e",
                "r", "v", "e", "r">>
         ELSE <<"o", "p", "e", "n", "a", "i">>

\* `Unsupported provider: ${config.provider}`, line 84
UnsupportedProvider(provider) ==
    <<"U", "n", "s", "u", "p", "p", "o", "r", "t", "e", "d", " ", "p", "r", "o",
      "v", "i", "d", "e", "r", ":", " ">> \o ProviderName(provider)

\* the body posted with the generate or chat request of a call
RequestPrompt(call) == fullPrompt(call.text, _getNotebookContext(call.notebook))

\* _refreshModels(), line 191: getAvailableModels up to its first suspension;
\* then is what its caller does once it returns: nothing more ("done"),
\* _refreshModels again ("refresh"), or _sendConfigToWebview ("send")
StartRefresh(provider, then) ==
    [provider |-> provider,
     pc |-> IF provider = University THEN "getKey" ELSE "http",
     list |-> IF provider = University THEN 0 ELSE 1,
     then |-> then]

----------------------------------------------------------------------------
(* What a previous run of the extension can have left in globalState. *)

FirstText == MkText(45)

\* one session whose first message is FirstText, followed by msgs
Loaded(msgs) ==
    <<[id |-> uuidv4(1), title |-> TitleOf(FirstText),
       messages |-> <<Message(FirstText, TRUE)>> \o msgs]>>

\* nothing; a question whose handler died with the process; a question with
\* its answer; a question with the error it got
LoadedLists ==
    { <<>>,
      Loaded(<<>>),
      Loaded(<<Message(<<"h", "i">>, FALSE)>>),
      Loaded(<<Message(ErrorPrefix \o <<"t", "i", "m", "e", "o", "u", "t">>, FALSE)>>) }

\* variant: the constructor creates a session whatever was stored
ConstructorSessionsAlwaysCreates(st, n) == unshift(Parse(st), NewSession(uuidv4(n)))

\* constructor, lines 159-172: load; create the initial session when the
\* stored list is empty, else make the first stored session current.
ConstructorSessions(st, n) ==
    IF Len(Parse(st)) = 0 THEN unshift(Parse(st), NewSession(uuidv4(n))) ELSE Parse(st)

ConstructorStored(st, n) ==
    IF Len(Parse(st)) = 0 THEN _saveSessions(ConstructorSessions(st, n)) ELSE st

ConstructorNextId(st, n) ==
    IF Len(Parse(st)) = 0 THEN n + 1 ELSE n

InitAt(L, c, s, nb) ==
        /\ _sessions = ConstructorSessions(Stringify(L), Len(L) + 1)
        /\ _currentSessionId = ConstructorSessions(Stringify(L), Len(L) + 1)[1].id
        /\ stored = ConstructorStored(Stringify(L), Len(L) + 1)
        /\ nextId = ConstructorNextId(Stringify(L), Len(L) + 1)
        /\ _view = FALSE
        /\ inflight = <<>>
        /\ detached = NoDetached
        /\ webview = NoWebview
        /\ timer = FALSE
        /\ last = Last(Len(L) = 0, null)
        /\ config = c
        /\ secret = s
        /\ _availableModels = <<>>
        /\ refreshes = <<StartRefresh(c.provider, "done")>>
        /\ notebook = nb
        /\ uncaught = FALSE

\* no notebook is open
InitWith(L, c, s) == InitAt(L, c, s, NoEditor)

\* a first activation or a later one, with the settings at their defaults
\* (package.json) and no credential stored
Init == \E L \in LoadedLists : InitWith(L, DefaultConfig, NoKey)

----------------------------------------------------------------------------
(* Operations *)

\* createNewChat(), lines 215-227
CreateNewChat ==
    /\ nextId <= MaxIds
    /\ LET newSession == NewSession(uuidv4(nextId))
           ss == unshift(_sessions, newSession)
       IN  /\ _sessions' = ss
           /\ _currentSessionId' = newSession.id
           /\ stored' = _saveSessions(ss)
           /\ webview' = UpdateWebview(_view, ss, newSession.id, webview)
           /\ last' = Last(TRUE, newSession.id)
    /\ nextId' = nextId + 1
    /\ UNCHANGED <<_view, inflight, detached, timer>>
    /\ UNCHANGED llm
    /\ UNCHANGED env

\* deleteChat(sessionId), lines 229-241, reached from case 'deleteSession'
DeleteChat(sessionId) ==
    /\ _view
    /\ LET sessionIndex == findIndex(_sessions, sessionId)
           ss == splice(_sessions, sessionIndex)
           cur == CurrentAfterDelete(ss, _currentSessionId, sessionId)
       IN  IF sessionIndex = 0
           THEN /\ last' = Last(FALSE, null)
                /\ UNCHANGED <<_sessions, _currentSessionId, stored, webview, detached>>
           ELSE /\ _sessions' = ss
                /\ _currentSessionId' = cur
                /\ stored' = _saveSessions(ss)
                /\ webview' = UpdateWebview(_view, ss, cur, webview)
                /\ detached' = Collect([d \in (DOMAIN detached) \cup {sessionId} |->
                                          IF d = sessionId THEN _sessions[sessionIndex]
                                          ELSE detached[d]], inflight)
                /\ last' = Last(TRUE, null)
    /\ UNCHANGED <<_view, inflight, timer, nextId>>
    /\ UNCHANGED llm
    /\ UNCHANGED env

\* variant: clearing the chat also drops the cached catalog
ClearCurrentChatDropsCatalog ==
    /\ LET i == CurrentIndex(_sessions, _currentSessionId)
           ss == [_sessions EXCEPT ![i] = ClearSession(@)]
       IN  IF i = 0
           THEN /\ last' = Last(FALSE, null)
                /\ UNCHANGED <<_sessions, stored, webview>>
           ELSE /\ _sessions' = ss
                /\ stored' = _saveSessions(ss)
                /\ webview' = UpdateWebview(_view, ss, _currentSessionId, webview)
                /\ last' = Last(TRUE, null)
    /\ _availableModels' = <<>>
    /\ UNCHANGED <<_currentSessionId, _view, inflight, detached, timer, nextId>>
    /\ UNCHANGED <<config, secret, refreshes>>
    /\ UNCHANGED env

\* clearCurrentChat(), lines 243-251
ClearCurrentChat ==
    /\ LET i == CurrentIndex(_sessions, _currentSessionId)
           ss == [_sessions EXCEPT ![i] = ClearSession(@)]
       IN  IF i = 0
           THEN /\ last' = Last(FALSE, null)
                /\ UNCHANGED <<_sessions, stored, webview>>
           ELSE /\ _sessions' = ss
                /\ stored' = _saveSessions(ss)
                /\ webview' = UpdateWebview(_view, ss, _currentSessionId, webview)
                /\ last' = Last(TRUE, null)
    /\ UNCHANGED <<_currentSessionId, _view, inflight, detached, timer, nextId>>
    /\ UNCHANGED llm
    /\ UNCHANGED env

\* variant: an unsupported provider leaves the question unanswered
UnsupportedReplyNone(ss, i, provider) == ss

\* lines 84 and 315-317: getResponse rejects before its first suspension,
\* so the handler appends the error in the turn of the submit itself
UnsupportedReply(ss, i, provider) ==
    [ss EXCEPT ![i].messages =
       Append(@, Message(ErrorPrefix \o UnsupportedProvider(provider), FALSE))]

\* case 'submit', lines 295-308: up to the await of getResponse; at most
\* budget messages are ever held
SubmitWithin(text, budget) ==
    /\ _view
    /\ LET i == CurrentIndex(_sessions, _currentSessionId)
           supported == config.provider \in Providers
           asked == [_sessions EXCEPT ![i] = PushUserMessage(@, text)]
           ss == IF supported THEN asked
                 ELSE UnsupportedReply(asked, i, config.provider)
       IN  IF i = 0
           THEN /\ last' = Last(FALSE, null)
                /\ UNCHANGED <<_sessions, stored, webview, inflight>>
           ELSE /\ Len(inflight) < MaxInflight
                /\ MessageCount(_sessions) + MessageCount(Objects(detached))
                     + Len(inflight) + 2 <= budget
                /\ _sessions' = ss
                /\ stored' = _saveSessions(ss)
                /\ webview' = UpdateWebview(_view, ss, _currentSessionId, webview)
                /\ inflight' = IF supported
                               THEN Append(inflight,
                                           StartCall(_sessions[i].id, text, config, notebook))
                               ELSE inflight
                /\ last' = Last(TRUE, null)
    /\ UNCHANGED <<_currentSessionId, _view, detached, timer, nextId>>
    /\ UNCHANGED llm
    /\ UNCHANGED env

Submit(text) == SubmitWithin(text, MaxMessages)

\* case 'submit', lines 309-321: getResponse settles (ok: resolved with
\* text, otherwise rejected with an Error whose message is text)
Response(k, ok, text) ==
    /\ k \in DOMAIN inflight
    /\ LET session == ResponseTarget(inflight[k].session, _currentSessionId)
           msg == Message(IF ok THEN text ELSE ErrorPrefix \o text, FALSE)
           ss == IF InList(_sessions, session)
                 THEN PushInList(_sessions, session, msg)
                 ELSE _sessions
           fl == RemoveAt(inflight, k)
       IN  /\ _sessions' = ss
           /\ detached' = Collect(PushDetached(detached, session, msg), fl)
           /\ stored' = _saveSessions(ss)
           /\ webview' = UpdateWebview(_view, ss, _currentSessionId, webview)
           /\ inflight' = fl
           /\ last' = Last(TRUE, null)
    /\ UNCHANGED <<_currentSessionId, _view, timer, nextId>>
    /\ UNCHANGED llm
    /\ UNCHANGED env

(* getResponse in steps.  A step runs from one await to the next; the step  *)
(* at which the call settles runs on into lines 309-321 of the handler.    *)

\* getResponse continues once the catalog is known, lines 71-85
AfterModels(k, models) ==
    IF ~includes(models, inflight[k].cfg.model)
    THEN Response(k, FALSE, ModelNotAvailable(inflight[k].cfg.model))
    ELSE /\ inflight' = [inflight EXCEPT ![k].pc = "queryKey"]
         /\ UNCHANGED <<_sessions, _currentSessionId, _view, stored, detached,
                        webview, timer, nextId, last>>
         /\ UNCHANGED llm
         /\ UNCHANGED env

\* line 69 resumes with the credential: with one, getAvailableModels is
\* entered (lines 34-36 and 56); without, queryUniversityServer (line 108)
GetKey(k) ==
    /\ k \in DOMAIN inflight
    /\ inflight[k].pc = "getKey"
    /\ inflight' =
         IF ~hasKey(secret)
         THEN [inflight EXCEPT ![k].pc = "queryKey"]
         ELSE [inflight EXCEPT
                 ![k].catalog = config.provider,
                 ![k].pc = IF config.provider = University THEN "listKey" ELSE "list",
                 ![k].list = IF config.provider = University THEN @ ELSE @ + 1]
    /\ UNCHANGED <<_sessions, _currentSessionId, _view, stored, detached,
                   webview, timer, nextId, last>>
    /\ UNCHANGED llm
    /\ UNCHANGED env

\* line 36 resumes with the credential
ListKey(k) ==
    /\ k \in DOMAIN inflight
    /\ inflight[k].pc = "listKey"
    /\ IF ListRequests(inflight[k].catalog, secret) = 0
       THEN AfterModels(k, <<>>)
       ELSE /\ inflight' = [inflight EXCEPT
                              ![k].pc = "list",
                              ![k].list = @ + ListRequests(inflight[k].catalog, secret)]
            /\ UNCHANGED <<_sessions, _currentSessionId, _view, stored, detached,
                           webview, timer, nextId, last>>
            /\ UNCHANGED llm
            /\ UNCHANGED env

\* the list request of line 41 or 56 settles
ListSettles(k, outcome) ==
    /\ k \in DOMAIN inflight
    /\ inflight[k].pc = "list"
    /\ outcome \in ListOutcomes(inflight[k].catalog)
    /\ AfterModels(k, getAvailableModels(inflight[k].catalog, outcome))

\* variant: the chat request is posted twice
PostChatTwice(call) == [call EXCEPT !.pc = "chat", !.chat = @ + 2]

\* axios.post of line 115
PostChat(call) == [call EXCEPT !.pc = "chat", !.chat = @ + 1]

\* line 108 resumes with the credential
QueryKey(k) ==
    /\ k \in DOMAIN inflight
    /\ inflight[k].pc = "queryKey"
    /\ IF ~hasKey(secret)
       THEN Response(k, FALSE, UniversityErrorPrefix \o MissingKeyText)
       ELSE /\ inflight' = [inflight EXCEPT ![k] = PostChat(@)]
            /\ UNCHANGED <<_sessions, _currentSessionId, _view, stored, detached,
                           webview, timer, nextId, last>>
            /\ UNCHANGED llm
            /\ UNCHANGED env

\* the chat request of line 115 settles
ChatSettles(k, outcome) ==
    /\ k \in DOMAIN inflight
    /\ inflight[k].pc = "chat"
    /\ Response(k, queryUniversityServer(outcome).ok, queryUniversityServer(outcome).text)

\* the generate request of line 90 settles
GenerateSettles(k, outcome) ==
    /\ k \in DOMAIN inflight
    /\ inflight[k].pc = "generate"
    /\ Response(k, queryOllama(outcome).ok, queryOllama(outcome).text)

(* _refreshModels, lines 189-205, in steps *)

\* _sendConfigToWebview(), lines 390-400
_sendConfigToWebview(view, cfg, wv) ==
    IF view
    THEN [wv EXCEPT !.config = [provider |-> cfg.provider, model |-> cfg.model,
                                universityUrl |-> cfg.universityApiUrl]]
    ELSE wv

\* variant: a refresh selects the first model of the catalog when the
\* configured one is not in it
RefreshDoneSelectsModel(r, models) ==
    /\ _availableModels' = models
    /\ config' = IF models # <<>> /\ ~includes(models, config.model)
                 THEN [config EXCEPT !.model = models[1]]
                 ELSE config
    /\ webview' =
         IF refreshes[r].then = "send"
         THEN _sendConfigToWebview(_view, config,
                  IF _view THEN [webview EXCEPT !.models = models] ELSE webview)
         ELSE IF _view THEN [webview EXCEPT !.models = models] ELSE webview
    /\ refreshes' =
         IF refreshes[r].then = "refresh"
         THEN [refreshes EXCEPT ![r] = StartRefresh(config.provider, "send")]
         ELSE RemoveAt(refreshes, r)
    /\ UNCHANGED <<_sessions, _currentSessionId, _view, stored, inflight, detached,
                   timer, nextId, last, secret>>
    /\ UNCHANGED env

\* line 191 resumes with the catalog; lines 193-198, and the caller goes on:
\* line 346, 352 or 357 starts the next _refreshModels, line 347, 353 or 358
\* sends the settings
RefreshDone(r, models) ==
    /\ _availableModels' = models
    /\ webview' =
         IF refreshes[r].then = "send"
         THEN _sendConfigToWebview(_view, config,
                  IF _view THEN [webview EXCEPT !.models = models] ELSE webview)
         ELSE IF _view THEN [webview EXCEPT !.models = models] ELSE webview
    /\ refreshes' =
         IF refreshes[r].then = "refresh"
         THEN [refreshes EXCEPT ![r] = StartRefresh(config.provider, "send")]
         ELSE RemoveAt(refreshes, r)
    /\ UNCHANGED <<_sessions, _currentSessionId, _view, stored, inflight, detached,
                   timer, nextId, last, config, secret>>
    /\ UNCHANGED env

\* line 36 resumes with the credential
RefreshKey(r) ==
    /\ r \in DOMAIN refreshes
    /\ refreshes[r].pc = "getKey"
    /\ IF ListRequests(refreshes[r].provider, secret) = 0
       THEN RefreshDone(r, <<>>)
       ELSE /\ refreshes' = [refreshes EXCEPT
                               ![r].pc = "http",
                               ![r].list = @ + ListRequests(refreshes[r].provider, secret)]
            /\ UNCHANGED <<_sessions, _currentSessionId, _view, stored, inflight,
                           detached, webview, timer, nextId, last, config, secret,
                           _availableModels>>
            /\ UNCHANGED env

\* the list request of line 41 or 56 settles
RefreshSettles(r, outcome) ==
    /\ r \in DOMAIN refreshes
    /\ refreshes[r].pc = "http"
    /\ outcome \in ListOutcomes(refreshes[r].provider)
    /\ RefreshDone(r, getAvailableModels(refreshes[r].provider, outcome))

(* The configuration commands, lines 344-359.  A handler suspended in       *)
(* config.update, showInputBox or secrets.store is a record of refreshes.   *)

\* case 'updateConfig', line 345, up to the first config.update (line 384)
\* with fewer than n handlers suspended
UpdateConfigWithin(provider, model, universityUrl, n) ==
    /\ _view
    /\ Len(inflight) + Len(refreshes) < n
    /\ refreshes' = Append(refreshes,
                           [pc |-> "llmProvider",
                            args |-> [provider |-> provider, model |-> model,
                                      universityApiUrl |-> universityUrl]])
    /\ last' = Last(FALSE, null)
    /\ UNCHANGED <<_sessions, _currentSessionId, _view, stored, inflight, detached,
                   webview, timer, nextId, config, secret, _availableModels>>
    /\ UNCHANGED env

UpdateConfig(provider, model, universityUrl) ==
    UpdateConfigWithin(provider, model, universityUrl, MaxHandlers)

\* the setting written by the config.update a handler is suspended in
Written(cfg, h) ==
    IF h.pc = "llmProvider" THEN [cfg EXCEPT !.provider = h.args.provider]
    ELSE IF h.pc = "model" THEN [cfg EXCEPT !.model = h.args.model]
    ELSE [cfg EXCEPT !.universityApiUrl = h.args.universityApiUrl]

\* lines 384-387: a config.update settles.  Fulfilled, the next update or
\* _refreshModels (line 387) follows; rejected, _updateConfig and the handler
\* (line 345, no try) end with the exception
ConfigUpdateSettles(r, ok) ==
    /\ r \in DOMAIN refreshes
    /\ refreshes[r].pc \in {"llmProvider", "model", "universityApiUrl"}
    /\ config' = IF ok THEN Written(config, refreshes[r]) ELSE config
    /\ refreshes' =
         IF ~ok THEN RemoveAt(refreshes, r)
         ELSE IF refreshes[r].pc = "llmProvider"
              THEN [refreshes EXCEPT ![r].pc = "model"]
              ELSE IF refreshes[r].pc = "model"
                   THEN [refreshes EXCEPT ![r].pc = "universityApiUrl"]
                   ELSE [refreshes EXCEPT ![r] = StartRefresh(config'.provider, "refresh")]
    /\ uncaught' = (uncaught \/ ~ok)
    /\ UNCHANGED <<_sessions, _currentSessionId, _view, stored, inflight, detached,
                   webview, timer, nextId, last, secret, _availableModels, notebook>>

\* case 'setUniversityApiKey', line 351, up to showInputBox (line 371)
SetUniversityApiKey ==
    /\ _view
    /\ Len(inflight) + Len(refreshes) < MaxHandlers
    /\ refreshes' = Append(refreshes, [pc |-> "showInputBox"])
    /\ last' = Last(FALSE, null)
    /\ UNCHANGED <<_sessions, _currentSessionId, _view, stored, inflight, detached,
                   webview, timer, nextId, config, secret, _availableModels>>
    /\ UNCHANGED env

\* lines 371-376: the input box is closed, with a key or dismissed (NoKey);
\* dismissed, the handler goes on to line 352
ShowInputBoxSettles(r, apiKey) ==
    /\ r \in DOMAIN refreshes
    /\ refreshes[r].pc = "showInputBox"
    /\ refreshes' =
         IF hasKey(apiKey)
         THEN [refreshes EXCEPT ![r] = [pc |-> "store", apiKey |-> apiKey]]
         ELSE [refreshes EXCEPT ![r] = StartRefresh(config.provider, "send")]
    /\ UNCHANGED <<_sessions, _currentSessionId, _view, stored, inflight, detached,
                   webview, timer, nextId, last, config, secret, _availableModels>>
    /\ UNCHANGED env

\* lines 376-378: secrets.store settles.  Fulfilled, _refreshModels (line
\* 378) follows; rejected, _setUniversityApiKey and the handler (line 351,
\* no try) end with the exception
StoreSettles(r, ok) ==
    /\ r \in DOMAIN refreshes
    /\ refreshes[r].pc = "store"
    /\ secret' = IF ok THEN refreshes[r].apiKey ELSE secret
    /\ refreshes' =
         IF ok THEN [refreshes EXCEPT ![r] = StartRefresh(config.provider, "refresh")]
         ELSE RemoveAt(refreshes, r)
    /\ uncaught' = (uncaught \/ ~ok)
    /\ UNCHANGED <<_sessions, _currentSessionId, _view, stored, inflight, detached,
                   webview, timer, nextId, last, config, _availableModels, notebook>>

\* case 'refreshModels', line 357, up to the first suspension
RefreshModels ==
    /\ _view
    /\ Len(inflight) + Len(refreshes) < MaxHandlers
    /\ refreshes' = Append(refreshes, StartRefresh(config.provider, "send"))
    /\ last' = Last(FALSE, null)
    /\ UNCHANGED <<_sessions, _currentSessionId, _view, stored, inflight, detached,
                   webview, timer, nextId, config, secret, _availableModels>>
    /\ UNCHANGED env

\* variant: the selected session is moved to the front of the list, which
\* is saved
SwitchSessionMovesToFront(sessionId) ==
    /\ _view
    /\ LET i == findIndex(_sessions, sessionId)
           ss == IF i = 0 THEN _sessions ELSE unshift(splice(_sessions, i), _sessions[i])
       IN  /\ _sessions' = ss
           /\ stored' = _saveSessions(ss)
           /\ webview' = UpdateWebview(_view, ss, sessionId, webview)
    /\ _currentSessionId' = sessionId
    /\ last' = Last(TRUE, null)
    /\ UNCHANGED <<_view, inflight, detached, timer, nextId>>
    /\ UNCHANGED llm
    /\ UNCHANGED env

\* case 'switchSession', lines 331-334
SwitchSession(sessionId) ==
    /\ _view
    /\ _currentSessionId' = sessionId
    /\ webview' = UpdateWebview(_view, _sessions, sessionId, webview)
    /\ last' = Last(FALSE, null)
    /\ UNCHANGED <<_sessions, _view, stored, inflight, detached, timer, nextId>>
    /\ UNCHANGED llm
    /\ UNCHANGED env

\* case 'getSessions', lines 327-329
GetSessions ==
    /\ _view
    /\ webview' = UpdateWebview(_view, _sessions, _currentSessionId, webview)
    /\ last' = Last(FALSE, null)
    /\ UNCHANGED <<_sessions, _currentSessionId, _view, stored, inflight, detached,
                   timer, nextId>>
    /\ UNCHANGED llm
    /\ UNCHANGED env

\* _updateContext(), lines 402-408
UpdateContext(view, nb, wv) ==
    IF view THEN [wv EXCEPT !.context = _getNotebookContext(nb)] ELSE wv

\* case 'getContext', lines 323-325
GetContext ==
    /\ _view
    /\ webview' = UpdateContext(_view, notebook, webview)
    /\ last' = Last(FALSE, null)
    /\ UNCHANGED <<_sessions, _currentSessionId, _view, stored, inflight, detached,
                   timer, nextId>>
    /\ UNCHANGED llm
    /\ UNCHANGED env

\* onDidChangeActiveNotebookEditor, lines 174-176: another editor (or none)
\* becomes the active one
ActivateNotebook(nb) ==
    /\ nb # notebook
    /\ notebook' = nb
    /\ webview' = UpdateContext(_view, nb, webview)
    /\ last' = Last(FALSE, null)
    /\ UNCHANGED <<_sessions, _currentSessionId, _view, stored, inflight, detached,
                   timer, nextId, uncaught>>
    /\ UNCHANGED llm

\* resolveWebviewView, lines 276-368: attach the view and arm the timer
ResolveWebviewView ==
    /\ ~_view
    /\ _view' = TRUE
    /\ timer' = TRUE
    /\ webview' = NoWebview
    /\ last' = Last(FALSE, null)
    /\ UNCHANGED <<_sessions, _currentSessionId, stored, inflight, detached, nextId>>
    /\ UNCHANGED llm
    /\ UNCHANGED env

\* the setTimeout callback of resolveWebviewView, lines 364-367
TimerFire ==
    /\ timer
    /\ timer' = FALSE
    /\ webview' = UpdateContext(_view, notebook,
                                UpdateWebview(_view, _sessions, _currentSessionId, webview))
    /\ last' = Last(FALSE, null)
    /\ UNCHANGED <<_sessions, _currentSessionId, _view, stored, inflight, detached, nextId>>
    /\ UNCHANGED llm
    /\ UNCHANGED env

\* deactivate, then activate: a new ChatbotViewProvider is constructed from
\* globalState; suspended handlers and the view die with the old process.
Restart ==
    /\ Len(Parse(stored)) = 0 => nextId <= MaxIds
    /\ _sessions' = ConstructorSessions(stored, nextId)
    /\ _currentSessionId' = ConstructorSessions(stored, nextId)[1].id
    /\ stored' = ConstructorStored(stored, nextId)
    /\ nextId' = ConstructorNextId(stored, nextId)
    /\ _view' = FALSE
    /\ inflight' = <<>>
    /\ detached' = NoDetached
    /\ webview' = NoWebview
    /\ timer' = FALSE
    /\ last' = Last(Len(Parse(stored)) = 0, null)
    /\ _availableModels' = <<>>
    /\ refreshes' = <<StartRefresh(config.provider, "done")>>
    /\ uncaught' = FALSE
    /\ UNCHANGED <<config, secret, notebook>>

SessionIdArgs == AllocatedIds \cup {NoSuchId}

Next ==
    \/ CreateNewChat
    \/ \E id \in SessionIdArgs : DeleteChat(id)
    \/ ClearCurrentChat
    \/ \E text \in TypedTexts : Submit(text)
    \/ \E k \in 1..MaxInflight, text \in Replies : Response(k, TRUE, text)
    \/ \E k \in 1..MaxInflight, text \in Errors : Response(k, FALSE, text)
    \/ \E id \in SessionIdArgs : SwitchSession(id)
    \/ GetSessions
    \/ ResolveWebviewView
    \/ TimerFire
    \/ Restart

Spec == Init /\ [][Next]_vars

\* the extension without the session selector of the view: construction,
\* createNewChat, deleteChat, clearCurrentChat and submits
NextNoSwitch ==
    \/ CreateNewChat
    \/ \E id \in SessionIdArgs : DeleteChat(id)
    \/ ClearCurrentChat
    \/ \E text \in TypedTexts : Submit(text)
    \/ \E k \in 1..MaxInflight, text \in Replies : Response(k, TRUE, text)
    \/ \E k \in 1..MaxInflight, text \in Errors : Response(k, FALSE, text)
    \/ GetSessions
    \/ ResolveWebviewView
    \/ TimerFire
    \/ Restart

SpecNoSwitch == Init /\ [][NextNoSwitch]_vars

TypeOK ==
    /\ _currentSessionId \in AllocatedIds \cup {NoSuchId, null}
    /\ \A i \in DOMAIN _sessions : _sessions[i].id \in AllocatedIds
    /\ Len(inflight) <= MaxInflight
    /\ _view \in BOOLEAN /\ timer \in BOOLEAN

----------------------------------------------------------------------------
(* Restricted specifications *)

\* only createNewChat and deleteChat act on the store (the view has to be
\* attached for deleteSession to arrive; a restart loads what was stored)
NextStore ==
    \/ CreateNewChat
    \/ \E id \in SessionIdArgs : DeleteChat(id)
    \/ ResolveWebviewView
    \/ TimerFire
    \/ Restart

SpecStore == Init /\ [][NextStore]_vars

\* submits of every text length around the title limit
NextTitle ==
    \/ \E text \in UserTexts : Submit(text)
    \/ \E k \in 1..MaxInflight, text \in Replies : Response(k, TRUE, text)
    \/ ClearCurrentChat
    \/ CreateNewChat
    \/ \E id \in SessionIdArgs : SwitchSession(id)
    \/ ResolveWebviewView

SpecTitle == Init /\ [][NextTitle]_vars

\* the provider call in its steps, for every setting of provider and model
\* and with and without a stored credential; sessions are created and
\* switched meanwhile, none is deleted
InitLLM == \E c \in Configs, s \in Secrets : InitWith(<<>>, c, s)

AllListOutcomes == UniversityListOutcomes \cup OllamaListOutcomes

CallSteps ==
    \/ \E k \in 1..MaxInflight : GetKey(k)
    \/ \E k \in 1..MaxInflight : ListKey(k)
    \/ \E k \in 1..MaxInflight, outcome \in AllListOutcomes : ListSettles(k, outcome)
    \/ \E k \in 1..MaxInflight : QueryKey(k)
    \/ \E k \in 1..MaxInflight, outcome \in ChatOutcomes : ChatSettles(k, outcome)
    \/ \E k \in 1..MaxInflight, outcome \in GenerateOutcomes : GenerateSettles(k, outcome)

RefreshSteps ==
    \/ \E r \in DOMAIN refreshes : RefreshKey(r)
    \/ \E r \in DOMAIN refreshes, outcome \in AllListOutcomes : RefreshSettles(r, outcome)

NextLLM ==
    \/ \E text \in TypedTexts : SubmitWithin(text, MaxMessagesLLM)
    \/ CallSteps
    \/ RefreshSteps
    \/ CreateNewChat
    \/ \E id \in SessionIdArgs : SwitchSession(id)
    \/ ResolveWebviewView

SpecLLM == InitLLM /\ [][NextLLM]_vars

\* the submits and their calls alone (the refresh of the catalog stays
\* pending)
NextCalls ==
    \/ \E text \in TypedTexts : SubmitWithin(text, MaxMessagesLLM)
    \/ CallSteps
    \/ CreateNewChat
    \/ \E id \in SessionIdArgs : SwitchSession(id)
    \/ ResolveWebviewView

\* every request settles (the timeouts of lines 43, 56, 98 and 127) and the
\* suspended call is resumed
SpecLLMFair == InitLLM /\ [][NextCalls]_vars /\ WF_vars(CallSteps)

\* the notebook editor and the local provider: any editor may be active at
\* activation, the settings are at their defaults
InitContext == \E nb \in Notebooks : InitAt(<<>>, DefaultConfig, NoKey, nb)

NextContext ==
    \/ GetContext
    \/ \E nb \in Notebooks : ActivateNotebook(nb)
    \/ \E text \in TypedTexts : SubmitWithin(text, MaxMessages)
    \/ \E k \in 1..MaxInflight, outcome \in GenerateOutcomes : GenerateSettles(k, outcome)
    \/ CreateNewChat
    \/ ResolveWebviewView
    \/ TimerFire

SpecContext == InitContext /\ [][NextContext]_vars

\* the suspended configuration handlers are resumed; a write to the
\* settings or to the secret store is fulfilled or rejected
ConfigSteps ==
    \/ \E ok \in BOOLEAN : \E r \in 1..MaxHandlers : ConfigUpdateSettles(r, ok)
    \/ \E apiKey \in Secrets : \E r \in 1..MaxHandlers : ShowInputBoxSettles(r, apiKey)
    \/ \E ok \in BOOLEAN : \E r \in 1..MaxHandlers : StoreSettles(r, ok)

\* the configuration commands: the settings form submits the other
\* provider, model and URL
NextConfig ==
    \/ UpdateConfig(University, OtherModel, OtherUrl)
    \/ SetUniversityApiKey
    \/ RefreshModels
    \/ ConfigSteps
    \/ RefreshSteps
    \/ ResolveWebviewView

SpecConfig == InitWith(<<>>, DefaultConfig, NoKey) /\ [][NextConfig]_vars

\* the session commands beside the configuration commands, with every
\* write fulfilled; a chat holds at most one question and its answer, and
\* MaxHandlers counts the pending submits too
NextOwnership ==
    \/ UpdateConfig(University, OtherModel, OtherUrl)
    \/ SetUniversityApiKey
    \/ RefreshModels
    \/ \E r \in 1..MaxHandlers : ConfigUpdateSettles(r, TRUE)
    \/ \E apiKey \in Secrets : \E r \in 1..MaxHandlers : ShowInputBoxSettles(r, apiKey)
    \/ \E r \in 1..MaxHandlers : StoreSettles(r, TRUE)
    \/ RefreshSteps
    \/ \E text \in TypedTexts :
         Len(inflight) + Len(refreshes) < MaxHandlers
           /\ SubmitWithin(text, MaxMessagesConfig)
    \/ \E k \in DOMAIN inflight : Response(k, TRUE, <<"h", "i">>)
    \/ CreateNewChat
    \/ \E id \in Ids(_sessions) : DeleteChat(id)
    \/ ClearCurrentChat
    \/ \E id \in Ids(_sessions) : SwitchSession(id)
    \/ ResolveWebviewView

SpecOwnership == InitWith(<<>>, DefaultConfig, NoKey) /\ [][NextOwnership]_vars

\* the settings form is submitted with the university server or with the
\* local provider
FormArgs ==
    { [provider |-> University, model |-> OtherModel, universityApiUrl |-> OtherUrl],
      DefaultConfig }

\* updateConfig commands that overlap each other and the refresh that the
\* constructor started, with every write fulfilled
NextOverlap ==
    \/ \E a \in FormArgs :
         UpdateConfigWithin(a.provider, a.model, a.universityApiUrl, MaxOverlap)
    \/ \E r \in 1..MaxOverlap : ConfigUpdateSettles(r, TRUE)
    \/ RefreshSteps
    \/ ResolveWebviewView

SpecOverlap == InitWith(<<>>, DefaultConfig, NoKey) /\ [][NextOverlap]_vars

\* the session commands beside the refresh of the catalog that the
\* constructor started
NextCatalog ==
    \/ \E r \in DOMAIN refreshes, outcome \in OllamaListOutcomes : RefreshSettles(r, outcome)
    \/ \E text \in TypedTexts : SubmitWithin(text, MaxMessagesConfig)
    \/ \E k \in DOMAIN inflight, ok \in BOOLEAN, text \in Replies \cup Errors :
         Response(k, ok, text)
    \/ CreateNewChat
    \/ \E id \in SessionIdArgs : DeleteChat(id)
    \/ ClearCurrentChat
    \/ \E id \in SessionIdArgs : SwitchSession(id)
    \/ GetSessions
    \/ GetContext
    \/ ResolveWebviewView

SpecCatalog == InitWith(<<>>, DefaultConfig, NoKey) /\ [][NextCatalog]_vars

----------------------------------------------------------------------------
(* Claims *)

Listed(id) == {i \in DOMAIN _sessions : _sessions[i].id = id}

\* C1: under createNewChat and deleteChat calls only, the current session id
\* is null or is the id of exactly one session of the list.
C1_CurrentNullOrListed ==
    _currentSessionId = null \/ Cardinality(Listed(_currentSessionId)) = 1

\* a session was created and one deleted, and a session is current
C1_Witness ==
    /\ nextId > 2
    /\ Len(_sessions) + 1 < nextId
    /\ Len(_sessions) >= 1
    /\ Cardinality(Listed(_currentSessionId)) = 1

\* C2: after any sequence of inbound commands, a non-empty session list has
\* exactly one current session (the current id is the id of a listed session).
C2_NonEmptyHasCurrent ==
    _sessions # <<>> => Cardinality(Listed(_currentSessionId)) = 1

\* the step appends exactly one non-user message to the listed session S and
\* leaves every other session, and the order of the list, as they were
AppendedOnlyTo(S) ==
    /\ Len(_sessions') = Len(_sessions)
    /\ \A i \in DOMAIN _sessions :
         IF _sessions[i].id = S
         THEN /\ _sessions'[i].id = S
              /\ _sessions'[i].title = _sessions[i].title
              /\ Len(_sessions'[i].messages) = Len(_sessions[i].messages) + 1
              /\ SubSeq(_sessions'[i].messages, 1, Len(_sessions[i].messages))
                   = _sessions[i].messages
              /\ ~_sessions'[i].messages[Len(_sessions'[i].messages)].isUser
         ELSE _sessions'[i] = _sessions[i]

\* C3: a submit is recorded for the session current at submit time, switching
\* or creating a session does not retarget it, and the response or error is
\* appended to that session and to no other, whatever session is current.
C3_ResponseGoesToSubmitSession ==
    [][ /\ \A text \in TypedTexts :
             Submit(text) /\ inflight' # inflight
             => /\ inflight' = Append(inflight, inflight'[Len(inflight')])
                /\ inflight'[Len(inflight')].session = _currentSessionId
                /\ Cardinality(Listed(_currentSessionId)) = 1
        /\ (CreateNewChat \/ \E id \in SessionIdArgs : SwitchSession(id))
             => inflight' = inflight
        /\ \A k \in DOMAIN inflight : \A text \in Replies \cup Errors : \A ok \in BOOLEAN :
             Response(k, ok, text) /\ Listed(inflight[k].session) # {}
             => AppendedOnlyTo(inflight[k].session)
      ]_vars

\* a session created in this run holds a question and its reply and is not
\* the current one, while the current session exists and holds no message
C3_Witness ==
    \E i \in DOMAIN _sessions :
        /\ _sessions[i].id = uuidv4(2)
        /\ _sessions[i].id # _currentSessionId
        /\ Len(_sessions[i].messages) = 2
        /\ _sessions[i].messages[1].isUser
        /\ ~_sessions[i].messages[2].isUser
        /\ Cardinality(Listed(_currentSessionId)) = 1
        /\ \A j \in Listed(_currentSessionId) : _sessions[j].messages = <<>>
        /\ last.saved /\ last.ret = null

\* C4: after every step the value stored under 'chatSessions' reads back as
\* the in-memory session list (sessions, order, titles, messages).
C4_StoredEqualsMemory == Parse(stored) = _sessions

\* a session created in this run holds a question and its answer, and the
\* last step saved
C4_Witness ==
    /\ last.saved
    /\ \E i \in DOMAIN _sessions :
         /\ _sessions[i].id = uuidv4(2)
         /\ Len(_sessions[i].messages) >= 2
         /\ Len(_sessions[i].messages[1].text) = 45
         /\ ~_sessions[i].messages[2].isUser

\* C5 as claimed: constructing a provider from the stored value yields the
\* session list that was in memory, for every reachable list.
C5_RoundTripEveryList == [][Restart => _sessions' = _sessions]_vars

\* C5: for every non-empty session list, constructing a provider from the
\* stored value yields the same sessions in the same order, each with the
\* same id, title and messages.
C5_RoundTripNonEmpty ==
    [][Restart /\ _sessions # <<>> => _sessions' = _sessions]_vars

\* a provider constructed from a stored list of two sessions, one with messages
C5_Witness ==
    /\ ~_view /\ ~last.saved
    /\ Len(_sessions) = 2
    /\ \E i \in DOMAIN _sessions : Len(_sessions[i].messages) >= 2

\* C6: createNewChat puts the new session in front of the unchanged previous
\* list, with no messages, makes it current, persists the list and returns it.
C6_CreateNewChat ==
    [][CreateNewChat =>
         /\ Len(_sessions') = Len(_sessions) + 1
         /\ Tail(_sessions') = _sessions
         /\ _sessions'[1].messages = <<>>
         /\ _sessions'[1].id \notin Ids(_sessions)
         /\ _currentSessionId' = _sessions'[1].id
         /\ Parse(stored') = _sessions'
         /\ last'.saved
         /\ last'.ret = _sessions'[1].id
      ]_vars

\* createNewChat has just returned the session now in front of an older
\* session that holds messages
C6_Witness ==
    /\ Len(_sessions) >= 2
    /\ last.ret = _sessions[1].id
    /\ _sessions[2].messages # <<>>

Without(ss, id) == SelectSeq(ss, LAMBDA x : x.id # id)

C8_ClearCurrentChat ==
    [][ClearCurrentChat =>
         IF Listed(_currentSessionId) # {}
         THEN /\ Len(_sessions') = Len(_sessions)
              /\ _currentSessionId' = _currentSessionId
              /\ \A i \in DOMAIN _sessions :
                   IF _sessions[i].id = _currentSessionId
                   THEN _sessions'[i] = [id |-> _sessions[i].id,
                                         title |-> <<"N", "e", "w", " ", "C", "h", "a", "t">>,
                                         messages |-> <<>>]
                   ELSE _sessions'[i] = _sessions[i]
         ELSE /\ UNCHANGED <<_sessions, _currentSessionId, stored>>
              /\ ~last'.saved
      ]_vars

\* the current session was cleared while its submit is still in flight, next
\* to another session that kept its messages
C8_Witness ==
    /\ \E i \in Listed(_currentSessionId) :
         /\ _sessions[i].messages = <<>>
         /\ _sessions[i].title = NewChatTitle
         /\ \E k \in DOMAIN inflight : inflight[k].session = _currentSessionId
    /\ \E j \in DOMAIN _sessions : _sessions[j].messages # <<>>
    /\ last.saved

\* the title the step gives session i when text is submitted to it while it
\* is empty, with the given suffix for texts longer than 30 characters
TitleRule(suffix) ==
    \A text \in UserTexts :
        Submit(text) /\ inflight' # inflight =>
            \A i \in Listed(_currentSessionId) :
                _sessions'[i].title =
                    IF _sessions[i].messages # <<>> THEN _sessions[i].title
                    ELSE IF Len(text) <= 30 THEN text
                    ELSE SubSeq(text, 1, 30) \o suffix

\* the single character HORIZONTAL ELLIPSIS
Ellipsis == "U+2026"

\* C9 as claimed: the suffix is the one-character ellipsis.
C9_TitleWithEllipsisChar == [][TitleRule(<<Ellipsis>>)]_vars

\* C9: the first message of an empty session becomes its title when it has
\* at most 30 characters, else its first 30 characters followed by three
\* full stops; a submit to a session holding messages keeps the title.
C9_TitleWithThreeDots == [][TitleRule(<<".", ".", ".">>)]_vars

\* a 45-character first message, whose submit is still in flight, gave a
\* 33-character title
C9_Witness ==
    \E i \in DOMAIN _sessions :
        /\ \E k \in DOMAIN inflight : inflight[k].session = _sessions[i].id
        /\ Len(_sessions[i].messages) = 1
        /\ Len(_sessions[i].messages[1].text) = 45
        /\ Len(_sessions[i].title) = 33

\* C10: in every step a session's messages stay as they are, grow by one
\* message at the end, or (by clearCurrentChat on that session) become empty.
C10_AppendOnly ==
    [][\A i \in DOMAIN _sessions : \A j \in DOMAIN _sessions' :
         _sessions[i].id = _sessions'[j].id =>
            \/ _sessions'[j].messages = _sessions[i].messages
            \/ /\ Len(_sessions'[j].messages) = Len(_sessions[i].messages) + 1
               /\ SubSeq(_sessions'[j].messages, 1, Len(_sessions[i].messages))
                    = _sessions[i].messages
            \/ /\ _sessions'[j].messages = <<>>
               /\ ClearCurrentChat
               /\ _sessions[i].id = _currentSessionId
      ]_vars

\* a session grew to three messages
C10_Witness ==
    \E i \in DOMAIN _sessions : Len(_sessions[i].messages) = 3


\* C11: in every reachable state, the state right after loading the stored
\* list included, no two sessions of the list have the same id.
C11_UniqueIds ==
    \A i, j \in DOMAIN _sessions : _sessions[i].id = _sessions[j].id => i = j

\* two sessions, just loaded from globalState by a new activation
C11_Witness ==
    /\ Len(_sessions) = 2
    /\ _sessions[1].id # _sessions[2].id
    /\ ~_view /\ ~last.saved
    /\ inflight = <<>>
    /\ stored = Stringify(_sessions)

\* the last message of the listed session S after the step
LastMessage(S) ==
    LET i == CHOOSE i \in DOMAIN _sessions' : _sessions'[i].id = S
    IN  _sessions'[i].messages[Len(_sessions'[i].messages)]

\* the step settles call k: its error message text, prefixed with
\* "Error: ", is appended to its session, and no call issues a request
RejectedWith(k, text) ==
    /\ AppendedOnlyTo(inflight[k].session)
    /\ LastMessage(inflight[k].session) = Message(ErrorPrefix \o text, FALSE)
    /\ inflight' = RemoveAt(inflight, k)

\* C12: with the university server as provider and no credential stored,
\* getResponse fails with the missing-credential error, and the call has
\* issued no list request and no chat request when it fails.
C12_NoCredentialNoRequest ==
    [][\A k \in DOMAIN inflight :
         /\ inflight[k].cfg.provider = University /\ secret = NoKey
              => (GetKey(k) => inflight'[k].pc = "queryKey"
                                 /\ inflight'[k].list = 0 /\ inflight'[k].chat = 0)
         /\ QueryKey(k) /\ secret = NoKey
              => /\ inflight[k].list = 0 /\ inflight[k].chat = 0
                 /\ RejectedWith(k, UniversityErrorPrefix \o MissingKeyText)
      ]_vars

\* a question was answered with the missing-credential error
C12_Witness ==
    /\ config.provider = University /\ secret = NoKey
    /\ \E i \in DOMAIN _sessions :
         /\ Len(_sessions[i].messages) = 2
         /\ _sessions[i].messages[2]
              = Message(ErrorPrefix \o UniversityErrorPrefix \o MissingKeyText, FALSE)


\* C13: with the university server as provider and a credential stored, a
\* failed model-list fetch (empty catalog) does not make getResponse reject
\* the query: the call goes on to the chat request.
C13_EmptyCatalogStillQueries ==
    [][\A k \in DOMAIN inflight : \A outcome \in UniversityListOutcomes :
         /\ ListSettles(k, outcome)
         /\ inflight[k].catalog = University
         /\ outcome.kind = "fail"
         => /\ Len(inflight') = Len(inflight)
            /\ inflight'[k].pc = "queryKey"
            /\ _sessions' = _sessions
      ]_vars

\* C14: for both providers, a list request that fails or whose payload has
\* no list makes getAvailableModels return the empty sequence.
C14_FailureGivesEmptyCatalog ==
    [][\A r \in DOMAIN refreshes : \A outcome \in AllListOutcomes :
         /\ RefreshSettles(r, outcome)
         /\ (outcome.kind = "fail" \/ outcome.shape # "list")
         => /\ _availableModels' = <<>>
            /\ refreshes' = RemoveAt(refreshes, r)
            /\ _view => webview'.models = <<>>
      ]_vars

\* the list request of the refresh at activation was issued and has settled
\* with an empty catalog, for the local provider
C14_Witness ==
    /\ config.provider = Ollama
    /\ refreshes = <<>>
    /\ _availableModels = <<>>

\* C15: with the university server as provider and no credential stored,
\* getAvailableModels returns the empty sequence and issues no request.
C15_NoCredentialEmptyCatalog ==
    [][\A r \in DOMAIN refreshes :
         /\ RefreshKey(r)
         /\ refreshes[r].provider = University
         /\ secret = NoKey
         => /\ refreshes[r].list = 0
            /\ refreshes' = RemoveAt(refreshes, r)
            /\ _availableModels' = <<>>
            /\ _view => webview'.models = <<>>
      ]_vars

\* the refresh at activation has returned without a credential
C15_Witness ==
    /\ config.provider = University
    /\ secret = NoKey
    /\ refreshes = <<>>
    /\ _availableModels = <<>>

\* C16: a chat answer without choices, with empty choices or with a first
\* choice without message makes the query return the fixed string "Error:
\* Unexpected response format from university server" as its result.
C16_MalformedAnswerIsResult ==
    [][\A k \in DOMAIN inflight : \A outcome \in ChatOutcomes :
         /\ ChatSettles(k, outcome)
         /\ outcome.kind = "ok"
         /\ outcome.shape \in {"nochoices", "emptychoices", "nomessage"}
         => /\ AppendedOnlyTo(inflight[k].session)
            /\ LastMessage(inflight[k].session) = Message(UnexpectedFormatText, FALSE)
      ]_vars

\* the fixed string is the answer to a question
C16_Witness ==
    /\ config.provider = University
    /\ \E i \in DOMAIN _sessions :
         /\ Len(_sessions[i].messages) >= 2
         /\ _sessions[i].messages[1].isUser
         /\ _sessions[i].messages[2] = Message(UnexpectedFormatText, FALSE)

\* the text the handler appends when the step settles the generate request
\* with this outcome
GenerateGives(k, outcome, text) ==
    GenerateSettles(k, outcome) /\ outcome.kind = "ok"
      => /\ AppendedOnlyTo(inflight[k].session)
         /\ LastMessage(inflight[k].session) = Message(text, FALSE)

\* C17 as stated: a body with a `response` field r gives r, whatever r is;
\* a body without the field gives "No response from model".
C17_ResponseFieldReturned ==
    [][\A k \in DOMAIN inflight : \A outcome \in GenerateOutcomes :
         outcome.kind = "ok" =>
           GenerateGives(k, outcome,
                         IF "response" \in DOMAIN outcome.body
                         THEN outcome.body.response ELSE NoResponseText)
      ]_vars

\* C17: a body with a non-empty `response` field r gives r; a body without
\* the field, or with an empty one, gives "No response from model".
C17_NonEmptyResponseReturned ==
    [][\A k \in DOMAIN inflight : \A outcome \in GenerateOutcomes :
         outcome.kind = "ok" =>
           GenerateGives(k, outcome,
                         IF "response" \in DOMAIN outcome.body
                            /\ outcome.body.response # <<>>
                         THEN outcome.body.response ELSE NoResponseText)
      ]_vars

\* the local provider gave an answer without usable `response`
C17_Witness ==
    /\ config.provider = Ollama
    /\ \E i \in DOMAIN _sessions :
         /\ Len(_sessions[i].messages) >= 2
         /\ _sessions[i].messages[2] = Message(NoResponseText, FALSE)


\* String.prototype.startsWith
startsWith(text, prefix) ==
    Len(text) >= Len(prefix) /\ SubSeq(text, 1, Len(prefix)) = prefix

\* the step makes getResponse of call k reject: a request fails, the
\* credential is missing at line 109, or the model is not in the catalog
ProviderCallFails(k) ==
    \/ \E outcome \in GenerateOutcomes :
         outcome.kind = "fail" /\ GenerateSettles(k, outcome)
    \/ \E outcome \in ChatOutcomes :
         outcome.kind = "fail" /\ ChatSettles(k, outcome)
    \/ QueryKey(k) /\ secret = NoKey
    \/ \E outcome \in AllListOutcomes :
         /\ ListSettles(k, outcome)
         /\ ~includes(getAvailableModels(inflight[k].catalog, outcome),
                      inflight[k].cfg.model)

\* the view shows the list, the current id and the current session's
\* messages as they are after the step
ViewShowsNewState ==
    /\ webview'.sessions = _sessions'
    /\ webview'.currentSessionId = _currentSessionId'
    /\ \A i \in DOMAIN _sessions' :
         _sessions'[i].id = _currentSessionId'
           => webview'.history = _sessions'[i].messages

\* C18: when the provider call of a submit on session S fails, exactly one
\* non-user message whose text starts with "Error:" is appended to S, the
\* list is persisted and the view is updated.
C18_FailureBecomesErrorMessage ==
    [][\A k \in DOMAIN inflight :
         ProviderCallFails(k)
         => /\ AppendedOnlyTo(inflight[k].session)
            /\ startsWith(LastMessage(inflight[k].session).text,
                          <<"E", "r", "r", "o", "r", ":">>)
            /\ Parse(stored') = _sessions'
            /\ last'.saved
            /\ ViewShowsNewState
            /\ inflight' = RemoveAt(inflight, k)
      ]_vars

\* a question was answered with the error of a request that timed out
C18_Witness ==
    \E i \in DOMAIN _sessions :
        /\ Len(_sessions[i].messages) >= 2
        /\ _sessions[i].messages[1].isUser
        /\ ~_sessions[i].messages[2].isUser
        /\ \/ _sessions[i].messages[2].text
                = ErrorPrefix \o OllamaErrorPrefix \o <<"t", "i", "m", "e", "o", "u", "t">>
           \/ _sessions[i].messages[2].text
                = ErrorPrefix \o UniversityErrorPrefix \o StatusPrefix \o Unknown
        /\ webview.sessions = _sessions
        /\ Parse(stored) = _sessions

\* the identifiers createNewChat can hand out
SessionIds == {uuidv4(n) : n \in 1..MaxIds}

\* the submits on session S whose provider call has not settled
Owed(S) == {k \in DOMAIN inflight : inflight[k].session = S}

\* the messages of the session at index i, of the user or not
MessagesOf(i, isUser) ==
    {j \in DOMAIN _sessions[i].messages : _sessions[i].messages[j].isUser = isUser}

\* every question of every session has its one reply or its pending call
OneReplyPerSubmit ==
    \A i \in DOMAIN _sessions :
        Cardinality(MessagesOf(i, TRUE))
          = Cardinality(MessagesOf(i, FALSE)) + Cardinality(Owed(_sessions[i].id))

\* C19: with requests that always settle, every submit accepted for session
\* S is eventually followed by exactly one non-user message appended to S,
\* whatever sessions are switched to or created meanwhile.
C19_EverySubmitAnswered ==
    /\ []OneReplyPerSubmit
    /\ \A S \in SessionIds : (Owed(S) # {}) ~> (Owed(S) = {} /\ Listed(S) # {})

\* a session that is no longer current has its question answered while a
\* session created after the submit is current
C19_Witness ==
    /\ inflight = <<>>
    /\ Len(_sessions) = 2
    /\ _sessions[1].id = _currentSessionId
    /\ _sessions[1].messages = <<>>
    /\ Len(_sessions[2].messages) = 2
    /\ _sessions[2].messages[1].isUser
    /\ ~_sessions[2].messages[2].isUser

\* call k posts its generate or chat request in this step
Posts(k) ==
    /\ k \in DOMAIN inflight'
    /\ inflight'[k].pc \in {"generate", "chat"}
    /\ k \in DOMAIN inflight => inflight[k].pc \notin {"generate", "chat"}

\* C20: a submit issues at most one generate or chat request; a failed
\* request is not issued again; a submit issues its own request even when
\* one with the same text is pending or was answered.
C20_OneRequestPerSubmit ==
    /\ [](\A k \in DOMAIN inflight :
            /\ inflight[k].chat <= 1
            /\ inflight[k].pc \in {"generate", "chat"} <=> inflight[k].chat = 1)
    /\ [][\A k \in DOMAIN inflight :
            /\ (\E outcome \in GenerateOutcomes : GenerateSettles(k, outcome))
               \/ (\E outcome \in ChatOutcomes : ChatSettles(k, outcome))
                 => inflight[k].chat = 1 /\ inflight' = RemoveAt(inflight, k)
            /\ QueryKey(k) /\ secret # NoKey => Posts(k) /\ inflight'[k].chat = 1
       ]_vars
    /\ [][\A text \in TypedTexts :
            SubmitWithin(text, MaxMessagesLLM) /\ config.provider = Ollama
              /\ Len(inflight') > Len(inflight)
              => Posts(Len(inflight')) /\ inflight'[Len(inflight')].chat = 1
       ]_vars

\* two submits of the same text on the same session have each their own
\* request pending
C20_Witness ==
    /\ Len(inflight) = 2
    /\ inflight[1].session = inflight[2].session
    /\ inflight[1].text = inflight[2].text
    /\ inflight[1].pc \in {"generate", "chat"} /\ inflight[1].chat = 1
    /\ inflight[2].pc \in {"generate", "chat"} /\ inflight[2].chat = 1

\* C21: with a provider other than 'ollama' and 'university-server',
\* getResponse fails with 'Unsupported provider' before any request, and the
\* submit shows the failure as an "Error:" message after the question.
C21_UnsupportedProvider ==
    [][\A text \in TypedTexts : \A i \in DOMAIN _sessions :
         /\ SubmitWithin(text, MaxMessagesLLM)
         /\ config.provider \notin Providers
         /\ _sessions[i].id = _currentSessionId
         => /\ inflight' = inflight
            /\ _sessions'[i].messages
                 = _sessions[i].messages \o
                   <<Message(text, TRUE),
                     Message(ErrorPrefix \o UnsupportedProvider(config.provider), FALSE)>>
            /\ startsWith(LastMessage(_currentSessionId).text,
                          <<"E", "r", "r", "o", "r", ":">>)
            /\ Parse(stored') = _sessions'
      ]_vars

\* a question was answered with the unsupported-provider error and no call
\* is pending
C21_Witness ==
    /\ config.provider = Unsupported
    /\ inflight = <<>>
    /\ \E i \in DOMAIN _sessions :
         /\ Len(_sessions[i].messages) = 2
         /\ _sessions[i].messages[1].isUser
         /\ _sessions[i].messages[2]
              = Message(ErrorPrefix \o UnsupportedProvider(Unsupported), FALSE)

\* the step is a call that changed the store: createNewChat, deleteChat,
\* clearCurrentChat, or an append of a submit (the question or its reply)
MutatingCall ==
    /\ \/ CreateNewChat
       \/ \E id \in SessionIdArgs : DeleteChat(id)
       \/ ClearCurrentChat
       \/ \E text \in TypedTexts : Submit(text)
       \/ \E k \in DOMAIN inflight, ok \in BOOLEAN, text \in Replies \cup Errors :
            Response(k, ok, text)
    /\ last'.saved

\* C23: while a view is attached, after every mutating call the pushed list
\* and current id equal the store's and the pushed history is the message
\* list of the current session (empty when no session is current).
C23_ViewEqualsStore ==
    [][_view /\ MutatingCall
         => /\ webview'.sessions = _sessions'
            /\ webview'.currentSessionId = _currentSessionId'
            /\ webview'.history
                 = IF Listed(_currentSessionId)' = {} THEN <<>>
                   ELSE _sessions'[CHOOSE i \in Listed(_currentSessionId)' : TRUE].messages
      ]_vars

\* C25: construction leaves at least one session and makes the first one
\* current: an empty stored list gets exactly one new empty session, which
\* is persisted; a non-empty stored list is taken as it is.
C25_Constructor ==
    [][Restart
         => /\ Len(_sessions') >= 1
            /\ _currentSessionId' = _sessions'[1].id
            /\ IF Parse(stored) = <<>>
               THEN /\ _sessions' = <<NewSession(uuidv4(nextId))>>
                    /\ uuidv4(nextId) \notin AllocatedIds
                    /\ Parse(stored') = _sessions'
               ELSE /\ _sessions' = Parse(stored)
                    /\ stored' = stored
                    /\ nextId' = nextId
      ]_vars

\* an activation found the stored list empty and created the second session
\* of this installation
C25_Witness ==
    /\ ~_view /\ last.saved
    /\ nextId = 3
    /\ _sessions = <<NewSession(uuidv4(2))>>
    /\ _currentSessionId = uuidv4(2)
    /\ Parse(stored) = _sessions

\* C29: a response for a session deleted while its call was in flight
\* changes no session of the list, and the deleted session is neither in
\* the list nor in the stored list afterwards.
C29_LateResponseAfterDelete ==
    [][\A k \in DOMAIN inflight : \A ok \in BOOLEAN : \A text \in Replies \cup Errors :
         Response(k, ok, text) /\ Listed(inflight[k].session) = {}
         => /\ _sessions' = _sessions
            /\ inflight[k].session \notin Ids(_sessions')
            /\ inflight[k].session \notin Ids(Parse(stored'))
            /\ Parse(stored') = _sessions
      ]_vars

\* a response has been appended to the object of a deleted session (another
\* call of that session is still pending), and the session is neither in
\* the list, which holds another session, nor in the stored list
C29_Witness ==
    \E k \in DOMAIN inflight :
        /\ Listed(inflight[k].session) = {}
        /\ inflight[k].session \in DOMAIN detached
        /\ \E j \in DOMAIN detached[inflight[k].session].messages :
              ~detached[inflight[k].session].messages[j].isUser
        /\ Len(_sessions) >= 1
        /\ inflight[k].session \notin Ids(Parse(stored))
        /\ Parse(stored) = _sessions

\* C30: no session's message list begins with a non-user message.
C30_NoLeadingReply ==
    \A i \in DOMAIN _sessions :
        _sessions[i].messages # <<>> => _sessions[i].messages[1].isUser

\* C27: _getNotebookContext never throws and changes no state: getContext
\* posts the no-active-notebook message when no editor is active, exactly
\* "Notebook is empty." for an editor with no cell, and a text that starts
\* with "Error parsing notebook:" when reading the cells raises; the handler
\* ends normally and nothing but the posted context changes.
C27_NotebookContext ==
    [][GetContext
         => /\ ~notebook.editor
                 => webview'.context
                      = <<"N", "o", " ", "a", "c", "t", "i", "v", "e", " ", "J", "u", "p",
                          "y", "t", "e", "r", " ", "n", "o", "t", "e", "b", "o", "o", "k",
                          " ", "f", "o", "u", "n", "d", ".", " ", "O", "p", "e", "n", " ",
                          "a", " ", "n", "o", "t", "e", "b", "o", "o", "k", " ", "f", "i",
                          "r", "s", "t", ".">>
            /\ notebook.editor /\ notebook.fails = "no" /\ notebook.cells = <<>>
                 => webview'.context
                      = <<"N", "o", "t", "e", "b", "o", "o", "k", " ", "i", "s", " ", "e",
                          "m", "p", "t", "y", ".">>
            /\ notebook.fails # "no"
                 => startsWith(webview'.context,
                               <<"E", "r", "r", "o", "r", " ", "p", "a", "r", "s", "i", "n",
                                 "g", " ", "n", "o", "t", "e", "b", "o", "o", "k", ":">>)
            /\ webview' = [webview EXCEPT !.context = webview'.context]
            /\ UNCHANGED <<_sessions, _currentSessionId, _view, stored, inflight,
                           detached, timer, nextId, llm, env>>
      ]_vars

\* the view has been sent the context of an editor with no cell, and a
\* submit read the context of an editor whose cells cannot be read
C27_Witness ==
    /\ _view
    /\ notebook = EmptyNotebook
    /\ webview.context = EmptyNotebookText
    /\ \E k \in DOMAIN inflight : inflight[k].notebook.fails # "no"

\* C28 as stated: the prompt of a request is the context block, a blank
\* line, "Question: " and the prompt, a blank line, and the cue "Answer:".
C28_PromptAsStated ==
    \A k \in DOMAIN inflight :
        inflight[k].chat >= 1
        => RequestPrompt(inflight[k])
             = <<"N", "o", "t", "e", "b", "o", "o", "k", " ", "C", "o", "n", "t", "e", "x",
                 "t", ":", "\n">>
               \o _getNotebookContext(inflight[k].notebook)
               \o <<"\n", "\n">>
               \o <<"Q", "u", "e", "s", "t", "i", "o", "n", ":", " ">> \o inflight[k].text
               \o <<"\n", "\n">>
               \o <<"A", "n", "s", "w", "e", "r", ":">>

\* C28: the prompt of a request is the line "Notebook Context:", the
\* context, a blank line, "Question: " and the prompt, and on the next line
\* (no blank line between) the cue "Answer:".
C28_PromptFormat ==
    \A k \in DOMAIN inflight :
        inflight[k].chat >= 1
        => RequestPrompt(inflight[k])
             = <<"N", "o", "t", "e", "b", "o", "o", "k", " ", "C", "o", "n", "t", "e", "x",
                 "t", ":", "\n">>
               \o _getNotebookContext(inflight[k].notebook)
               \o <<"\n", "\n">>
               \o <<"Q", "u", "e", "s", "t", "i", "o", "n", ":", " ">> \o inflight[k].text
               \o <<"\n">>
               \o <<"A", "n", "s", "w", "e", "r", ":">>

\* a generate request is pending whose prompt carries the two cells of a
\* notebook that have text
C28_Witness ==
    \E k \in DOMAIN inflight :
        /\ inflight[k].chat = 1
        /\ inflight[k].pc = "generate"
        /\ inflight[k].notebook = ThreeCells
        /\ inflight[k].text = MkText(45)
        /\ Len(RequestPrompt(inflight[k])) > Len(inflight[k].text) + 30

\* C22: no command handler ends with an uncaught exception, whatever the
\* settings store and the secret store answer.
C22_HandlersEndNormally == ~uncaught

\* the step belongs to a session command of the view or to clearHistory
SessionCommand ==
    \/ \E text \in TypedTexts : SubmitWithin(text, MaxMessagesConfig)
    \/ \E k \in DOMAIN inflight, ok \in BOOLEAN, text \in Replies \cup Errors :
         Response(k, ok, text)
    \/ CreateNewChat
    \/ \E id \in SessionIdArgs : DeleteChat(id)
    \/ ClearCurrentChat
    \/ \E id \in SessionIdArgs : SwitchSession(id)

\* C24: every session command (submit and its reply, switchSession,
\* createSession, deleteSession, clearHistory, getSessions, getContext)
\* leaves the cached catalog unchanged; the catalog changes only in the
\* step in which a _refreshModels call resumes with the list.
C24_CatalogOnlyByRefresh ==
    [][/\ SessionCommand \/ GetSessions \/ GetContext
            => _availableModels' = _availableModels
       /\ _availableModels' # _availableModels
            => \E r \in DOMAIN refreshes :
                 /\ refreshes[r].pc \in {"getKey", "http"}
                 /\ refreshes' # refreshes
      ]_vars

\* the catalog holds a model, no refresh is pending, and the chat that
\* was asked a question has been cleared while the call is pending
C24_Witness ==
    /\ _availableModels = <<DefaultModel>>
    /\ refreshes = <<>>
    /\ webview.models = <<DefaultModel>>
    /\ \E k \in DOMAIN inflight :
         \E i \in Listed(inflight[k].session) : _sessions[i].messages = <<>>

\* the step resumes exactly one suspended handler, and that handler was
\* suspended at one of the places pcs
Resumes(pcs) ==
    \E r \in DOMAIN refreshes :
        /\ refreshes[r].pc \in pcs
        /\ Len(refreshes') = Len(refreshes)
        /\ refreshes'[r] # refreshes[r]
        /\ \A q \in DOMAIN refreshes : q # r => refreshes'[q] = refreshes[q]

\* C26: the settings change only in the step that resumes _updateConfig
\* after a config.update and the credential only in the step that resumes
\* _setUniversityApiKey after secrets.store, so neither a session command
\* nor a model refresh changes them (a step that changes the session list,
\* the stored list, the current id or the pending submits leaves settings,
\* credential and handlers as they are); and a step of a configuration
\* command or of a refresh (the steps that change the record of a handler)
\* changes neither the session list, nor the stored list, nor the current id.
C26_Ownership ==
    [][/\ config' # config => Resumes({"llmProvider", "model", "universityApiUrl"})
       /\ secret' # secret => Resumes({"store"})
       /\ refreshes' # refreshes => UNCHANGED <<_sessions, _currentSessionId, stored>>
       /\ <<_sessions, _currentSessionId, stored, inflight>>'
            # <<_sessions, _currentSessionId, stored, inflight>>
            => UNCHANGED <<config, secret, refreshes>>
      ]_vars

\* the settings and the credential have been written, the settings were
\* sent to the view, and the list holds two chats one of which was asked
\* and answered
C26_Witness ==
    /\ config = [provider |-> University, model |-> OtherModel, universityApiUrl |-> OtherUrl]
    /\ secret = ApiKey
    /\ webview.config.provider = University
    /\ Len(_sessions) = 2
    /\ \E i \in DOMAIN _sessions : Len(_sessions[i].messages) = 2

\* the first user message of a message list (the list holds one)
RECURSIVE FirstUserText(_)
FirstUserText(messages) ==
    IF Head(messages).isUser THEN Head(messages).text ELSE FirstUserText(Tail(messages))

\* C31: every session that holds a user message has the title derived from
\* the first user message of its list: that text when it has at most 30
\* characters, else its first 30 characters and the suffix "...".
C31_TitleOfFirstUserMessage ==
    \A i \in DOMAIN _sessions :
        (\E j \in DOMAIN _sessions[i].messages : _sessions[i].messages[j].isUser)
        => _sessions[i].title
             = IF Len(FirstUserText(_sessions[i].messages)) <= 30
               THEN FirstUserText(_sessions[i].messages)
               ELSE SubSeq(FirstUserText(_sessions[i].messages), 1, 30) \o <<".", ".", ".">>

\* C32: replies are appended in the order of their questions: the call that
\* settles is the oldest pending call of its session.
C32_RepliesInQuestionOrder ==
    [][\A k \in DOMAIN inflight : \A ok \in BOOLEAN : \A text \in Replies \cup Errors :
         Response(k, ok, text)
         => \A j \in 1..(k - 1) : inflight[j].session # inflight[k].session
      ]_vars

\* C35: a submit received while the current id names no session of the list
\* (null included) is dropped: no session, no pending call, no stored value
\* and nothing of the view changes, and nothing is saved.
C35_SubmitWithoutSession ==
    [][\A text \in TypedTexts :
         Listed(_currentSessionId) = {} /\ Submit(text)
         => /\ UNCHANGED <<_sessions, _currentSessionId, stored, inflight, detached,
                           webview>>
            /\ ~last'.saved
      ]_vars

\* the view is attached, the list holds a session, the current id names
\* none, and the handler that ran last saved nothing and left no call
C35_Witness ==
    /\ _view
    /\ Len(_sessions) >= 1
    /\ Listed(_currentSessionId) = {}
    /\ inflight = <<>>
    /\ ~last.saved
    /\ webview.currentSessionId = _currentSessionId

\* C36: deleteChat with an id that matches no session leaves the list, the
\* current id and the stored value unchanged, pushes nothing to the view
\* and saves nothing.
C36_DeleteUnknown ==
    [][\A id \in SessionIdArgs :
         Listed(id) = {} /\ DeleteChat(id)
         => /\ UNCHANGED <<_sessions, _currentSessionId, stored, webview, inflight,
                           detached>>
            /\ ~last'.saved
      ]_vars

\* a session that holds a message is listed, an allocated id names a
\* session that is gone, and the handler that ran last saved nothing
C36_Witness ==
    /\ _view
    /\ Len(_sessions) >= 1
    /\ \E i \in DOMAIN _sessions : _sessions[i].messages # <<>>
    /\ \E id \in AllocatedIds : Listed(id) = {}
    /\ ~last.saved

\* C38: switchSession changes the current id and nothing else of the store:
\* the list with its titles and messages and the stored value are unchanged
\* and nothing is saved.
C38_SwitchOnlyCurrent ==
    [][\A id \in SessionIdArgs :
         SwitchSession(id)
         => /\ _currentSessionId' = id
            /\ UNCHANGED <<_sessions, stored, inflight, detached>>
            /\ ~last'.saved
      ]_vars

\* the second of two sessions is current and the view shows its messages
C38_Witness ==
    /\ _view
    /\ Len(_sessions) = 2
    /\ _currentSessionId = _sessions[2].id
    /\ webview.currentSessionId = _sessions[2].id
    /\ _sessions[2].messages # <<>>
    /\ webview.history = _sessions[2].messages
    /\ ~last.saved

\* C37: without switchSession the current session is the first session of
\* the list, and the current id is null exactly when the list is empty.
C37_CurrentIsFirst ==
    /\ _sessions = <<>> <=> _currentSessionId = null
    /\ _sessions # <<>> => _currentSessionId = _sessions[1].id

\* after a creation and a deletion the session created second is the only
\* one listed; it is current and holds a message
C37_Witness ==
    /\ _sessions # <<>>
    /\ _sessions[1].id = uuidv4(2)
    /\ _currentSessionId = uuidv4(2)
    /\ Len(_sessions) = 1
    /\ _sessions[1].messages # <<>>

\* C39: with the university server as provider and a credential stored, a
\* fetched catalog that is not empty and lacks the configured model makes
\* getResponse fail with "Model ... not available on server" without a chat
\* request; a catalog that holds the configured model lets the call go on,
\* and it then issues exactly one chat request.
C39_ModelValidation ==
    [][\A k \in DOMAIN inflight :
         /\ \A outcome \in UniversityListOutcomes :
              /\ inflight[k].cfg.provider = University /\ hasKey(secret)
              /\ inflight[k].pc = "list"
              /\ outcome.kind = "ok" /\ outcome.shape = "list" /\ outcome.items # <<>>
              /\ ListSettles(k, outcome)
              => IF \E i \in DOMAIN outcome.items : outcome.items[i].id = inflight[k].cfg.model
                 THEN /\ inflight' = [inflight EXCEPT ![k].pc = "queryKey"]
                      /\ inflight[k].chat = 0
                      /\ _sessions' = _sessions
                 ELSE /\ inflight[k].chat = 0
                      /\ RejectedWith(k, <<"M", "o", "d", "e", "l", " ">>
                                           \o inflight[k].cfg.model
                                           \o <<" ", "n", "o", "t", " ", "a", "v", "a", "i",
                                                "l", "a", "b", "l", "e", " ", "o", "n", " ",
                                                "s", "e", "r", "v", "e", "r">>)
         /\ inflight[k].cfg.provider = University /\ hasKey(secret) /\ QueryKey(k)
              => /\ inflight[k].chat = 0
                 /\ inflight' = [inflight EXCEPT ![k].pc = "chat", ![k].chat = 1]
      ]_vars

\* with a credential stored, the question for the model that the catalog
\* lacks was answered with the error, and a chat request is pending for a
\* call that fetched the catalog
C39_Witness ==
    /\ config.provider = University /\ secret = ApiKey
    /\ \/ /\ config.model = OtherModel
          /\ \E i \in DOMAIN _sessions :
               /\ Len(_sessions[i].messages) = 2
               /\ _sessions[i].messages[2]
                    = Message(ErrorPrefix \o ModelNotAvailable(OtherModel), FALSE)
       \/ /\ config.model = DefaultModel
          /\ \E k \in DOMAIN inflight :
               inflight[k].pc = "chat" /\ inflight[k].list = 1 /\ inflight[k].chat = 1

\* what a refresh for the provider can return
ResultsOf(provider, apiKey) ==
    IF ListRequests(provider, apiKey) = 0 THEN {<<>>}
    ELSE {getAvailableModels(provider, outcome) : outcome \in ListOutcomes(provider)}

\* C33: once every refresh has completed, the cached catalog is a result of
\* a refresh for the configured provider: a refresh started earlier that
\* finishes later does not overwrite a newer result.
C33_CatalogOfCurrentProvider ==
    refreshes = <<>> => _availableModels \in ResultsOf(config.provider, secret)

\* C34: after every updateConfig handler has completed, the stored provider,
\* model and URL are those of one updateConfig command (or the defaults when
\* none was given): overlapping commands leave no mix.
C34_ConfigOfOneCommand ==
    refreshes = <<>> => config \in FormArgs \cup {DefaultConfig}

====
